---- MODULE Spec2Model ----
(***************************************************************************)
(* A model of nqlstore: one CRUD surface (insert / find / update / delete) *)
(* over a relational store (SQLStore), a kv store (RedisStore) and a       *)
(* document store (MongoStore), and the translator of MongoDB-style        *)
(* selectors into relational and kv filters (QueryParser).                 *)
(*                                                                         *)
(* The test schema is modelled: Library(name, address, books) and          *)
(* Book(title, library_id).  Strings are modelled by small integers so     *)
(* that the order comparisons ($gt, $lt, ...) are defined.                 *)
(***************************************************************************)
EXTENDS Integers, Sequences, FiniteSets, TLC

VARIABLES
    store,       \* which store the application constructed: "sql", "redis", "mongo"
    libs,        \* relational table sqllibrary: set of [id, name, address]
    books,       \* relational table sqlbook: set of [id, title, library_id]
    nextLibId,   \* next auto-increment id of sqllibrary
    nextBookId,  \* next auto-increment id of sqlbook
    recs,        \* kv / document collection: set of [id, name, address, books]
    nextPk,      \* next primary key of the kv / document collection
    last,        \* the last call: its arguments, the state before it, its outcome
    probe,       \* the last selector translated on its own, and what its filters say
    _STORES,     \* the application's registry of stores: URI -> store instance (0: no entry)
    requests,    \* the requests of the application: where each is in its get_*_store() call
    registered,  \* the store.register(models) calls that have completed, in order
    clears,      \* how many times clear_stores() has been called
    raised,      \* the store.register(models) calls that have raised, in order
    posts,       \* relational table sqlpost of the blog: set of post ids
    comments,    \* relational table sqlcomment: set of [id, post_id, content]
    tags,        \* relational table sqltag (title is unique): set of [id, title]
    taglinks,    \* relational link table sqltaglink: set of [id, post_id, tag_id]
    lastPost,    \* the last call on SqlPost: its arguments, the tables before it, its outcome
    sessions,    \* the calls in flight on the store, one per caller: where each is, what it holds
    seen,        \* the last thing a caller saw or did while calls were in flight
    database     \* the connection held on the kv model class (Meta.database): 0 is unset

vars == <<store, libs, books, nextLibId, nextBookId, recs, nextPk, last, probe,
          _STORES, requests, registered, clears, raised,
          posts, comments, tags, taglinks, lastPost,
          sessions, seen, database>>
\* the calls that overlap in time, and the handle they share
concVars == <<sessions, seen, database>>
\* the tables of the blog example, whose posts have tags through a link model
blogVars == <<posts, comments, tags, taglinks, lastPost>>
\* the state of the example applications' store registry
registryVars == <<_STORES, requests, registered, clears, raised>>

\* ------------------------------------------------------------------ bounds
MaxLibs == 2     \* library rows ever inserted in one behaviour
MaxBooks == 5    \* book rows ever inserted in one behaviour
MaxRecs == 2     \* kv / document records ever inserted in one behaviour

None == 0 - 1    \* Python's None for an optional integer (limit)

\* ------------------------------------------------------------- sequences
RECURSIVE Flatten(_)
\* parsers.py _flatten_list: a sequence of sequences into one sequence
Flatten(ss) == IF ss = <<>> THEN <<>> ELSE Head(ss) \o Flatten(Tail(ss))

Range(s) == {s[i] : i \in 1..Len(s)}

RECURSIVE SortedByKey(_)
\* the items of a set of [key, item] pairs (keys distinct) in increasing key order
SortedByKey(S) ==
    IF S = {} THEN <<>>
    ELSE LET m == CHOOSE x \in S : \A y \in S : x.key <= y.key
         IN  <<m.item>> \o SortedByKey(S \ {m})

\* Python's s[skip:] followed by at most limit elements (SQL OFFSET / LIMIT)
Page(s, skip, limit) ==
    LET hi == IF limit = None THEN Len(s)
              ELSE IF skip + limit < Len(s) THEN skip + limit ELSE Len(s)
    IN  SubSeq(s, skip + 1, hi)

\* ------------------------------------------------------------- selectors
\* An operator map {"$op": value, ...} is a sequence of entries (a Python dict
\* keeps insertion order).  val is a scalar payload, vals a list payload (or
\* the set of values a $regex pattern matches), sub the operator map of $not.
Op(o, v) == [op |-> o, val |-> v, vals |-> {}, sub |-> <<>>]
OpIn(o, vs) == [op |-> o, val |-> 0, vals |-> vs, sub |-> <<>>]
OpNot(ops) == [op |-> "$not", val |-> 0, vals |-> {}, sub |-> ops]
\* {field: v} with a scalar v in place of the operator map: the entry without
\* an operator stands for the scalar itself
Scalar(v) == [op |-> "", val |-> v, vals |-> {}, sub |-> <<>>]

\* A selector {key: value, ...} is a sequence of entries: a field path with its
\* operator map, or $and / $or / $nor with its list of sub-selectors.
Fld(path, ops) == [k |-> path, ops |-> ops, subs |-> <<>>]
Logic(k, subs) == [k |-> k, ops |-> <<>>, subs |-> subs]

\* selectors.py: what a selector means (MongoDB's semantics of the language)
RECURSIVE OpHolds(_, _)
OpHolds(o, x) ==
    CASE o.op = "$eq" -> x = o.val
      [] o.op = "" -> x = o.val
      [] o.op = "$ne" -> x # o.val
      [] o.op = "$gt" -> x > o.val
      [] o.op = "$gte" -> x >= o.val
      [] o.op = "$lt" -> x < o.val
      [] o.op = "$lte" -> x <= o.val
      [] o.op = "$in" -> x \in o.vals
      [] o.op = "$nin" -> x \notin o.vals
      [] o.op = "$regex" -> x \in o.vals
      [] o.op = "$not" -> ~(\A i \in 1..Len(o.sub) : OpHolds(o.sub[i], x))
      [] OTHER -> TRUE

OpsHold(ops, x) == \A i \in 1..Len(ops) : OpHolds(ops[i], x)

\* r is a record [name, address, titles]: titles is the set of titles of its books
RECURSIVE SelectorHolds(_, _)
SelectorHolds(sel, r) ==
    \A i \in 1..Len(sel) :
        LET e == sel[i] IN
        CASE e.k = "$and" -> \A j \in 1..Len(e.subs) : SelectorHolds(e.subs[j], r)
          [] e.k = "$or" -> \E j \in 1..Len(e.subs) : SelectorHolds(e.subs[j], r)
          [] e.k = "$nor" -> ~(\E j \in 1..Len(e.subs) : SelectorHolds(e.subs[j], r))
          [] e.k = "name" -> OpsHold(e.ops, r.name)
          [] e.k = "address" -> OpsHold(e.ops, r.address)
          [] e.k = "id" -> OpsHold(e.ops, r.id)
          [] e.k = "books.title" -> \E t \in r.titles : OpsHold(e.ops, t)
          [] OTHER -> FALSE

\* ------------------------------------------------------- native filters
\* A native filter is an expression tree over columns: a comparison of a
\* column with a literal, or and / or / not of expressions.  The column
\* "title" belongs to the related table sqlbook (the kv field books.title);
\* "id", "name" and "address" belong to the model's own table.
Cmp(col, op, v) == [t |-> "cmp", col |-> col, op |-> op, val |-> v, vals |-> {}, args |-> <<>>]
CmpIn(col, op, vs) == [t |-> "cmp", col |-> col, op |-> op, val |-> 0, vals |-> vs, args |-> <<>>]
Bool(t, args) == [t |-> t, col |-> "", op |-> "", val |-> 0, vals |-> {}, args |-> args]

\* the negation of a comparison operator (sqlalchemy's operator.negate)
Negated(op) ==
    CASE op = "eq" -> "ne" [] op = "ne" -> "eq"
      [] op = "gt" -> "le" [] op = "le" -> "gt"
      [] op = "lt" -> "ge" [] op = "ge" -> "lt"
      [] op = "in" -> "notin" [] op = "notin" -> "in"
      [] op = "regex" -> "notregex" [] op = "notregex" -> "regex"

\* sqlalchemy and_ / or_: one clause is returned as it is, not wrapped in a list
SaAnd(args) == IF Len(args) = 1 THEN args[1] ELSE Bool("and", args)
SaOr(args) == IF Len(args) = 1 THEN args[1] ELSE Bool("or", args)
\* sqlalchemy not_: a comparison negates its operator, anything else is wrapped
SaNot(f) == IF f.t = "cmp" THEN [f EXCEPT !.op = Negated(f.op)] ELSE Bool("not", <<f>>)

RECURSIVE FoldBinary(_, _)
\* functools.reduce(lambda prev, curr: prev <op> curr, filters), filters not empty
FoldBinary(t, args) ==
    IF Len(args) = 1 THEN args[1]
    ELSE Bool(t, <<FoldBinary(t, SubSeq(args, 1, Len(args) - 1)), args[Len(args)]>>)

_redis_and(filters) == FoldBinary("and", filters)
_redis_or(filters) == FoldBinary("or", filters)

\* _get_sql_nested_field / _get_redis_nested_field: the column at a dotted path
NestedField(path) ==
    CASE path = "books.title" -> "title"
      [] path = "books.library_id" -> "library_id"
      [] path = "books.library.name" -> "name"
      [] OTHER -> path

\* The fields of the schemas Library and Book by their path from Library, each
\* with the backends it is declared disabled on (disable_on_sql,
\* disable_on_redis, disable_on_mongo); notes is a field kept out of the
\* relational model.
SchemaFields == <<
    [path |-> "address", disabled |-> {}],
    [path |-> "name", disabled |-> {}],
    [path |-> "notes", disabled |-> {"sql"}],
    [path |-> "books.title", disabled |-> {}],
    [path |-> "books.library_id", disabled |-> {"redis", "mongo"}],
    [path |-> "books.library.name", disabled |-> {"redis", "mongo"}]
>>

\* get_field_definitions: the fields of the model compiled for the backend
get_field_definitions(backend) ==
    {SchemaFields[i].path : i \in {j \in 1..Len(SchemaFields) : backend \notin SchemaFields[j].disabled}}

\* the paths getattr resolves on the model of the store; the primary key is
\* added by every backend
KnownPaths == {"id"} \cup get_field_definitions(store)

MongoOnly == {"$exists", "$type", "$expr", "$jsonSchema", "$mod", "$text", "$where",
              "$geoIntersects", "$geoWithin", "$near", "$nearSphere", "$all",
              "$elemMatch", "$size", "$bitsAllClear", "$bitsAllSet", "$bitsAnyClear",
              "$bitsAnySet", "$", "$meta", "$slice", "$rand", "$natural", "$options"}
Comparison == {"$eq", "$gt", "$gte", "$in", "$lt", "$lte", "$ne", "$nin"}
Registry == Comparison \cup MongoOnly \cup {"$not", "$and", "$nor", "$or", "$regex"}
\* a variant in which no key is taken to start with a dollar sign
NoDollar(k) == FALSE
\* selector.startswith("$"): the keys of the inputs that start with a dollar sign
StartsWithDollar(k) == k \in Registry \cup {"$between", "$like"}

\* the comparison an operator predicate emits on a column
Emit(o, col) ==
    CASE o.op = "$eq" -> Cmp(col, "eq", o.val)
      [] o.op = "$ne" -> Cmp(col, "ne", o.val)
      [] o.op = "$gt" -> Cmp(col, "gt", o.val)
      [] o.op = "$gte" -> Cmp(col, "ge", o.val)
      [] o.op = "$lt" -> Cmp(col, "lt", o.val)
      [] o.op = "$lte" -> Cmp(col, "le", o.val)
      [] o.op = "$in" -> CmpIn(col, "in", o.vals)
      [] o.op = "$nin" -> CmpIn(col, "notin", o.vals)
      [] o.op = "$regex" -> CmpIn(col, "regex", o.vals)

RECURSIVE OpsToSql(_, _)
\* the to_sqlalchemy() tuples of the operator predicates of a field, flattened
OpsToSql(ops, col) ==
    IF ops = <<>> THEN <<>>
    ELSE LET o == Head(ops)
             mine == CASE o.op \in MongoOnly -> <<>>
                       [] o.op = "$not" -> <<SaNot(SaAnd(OpsToSql(o.sub, col)))>>
                       [] OTHER -> <<Emit(o, col)>>
         IN  mine \o OpsToSql(Tail(ops), col)

RECURSIVE to_sqlalchemy(_)
\* RootPredicate.to_sqlalchemy: the tuple of filters of a selector
to_sqlalchemy(sel) ==
    IF sel = <<>> THEN <<>>
    ELSE LET e == Head(sel)
             inner == Flatten([j \in 1..Len(e.subs) |-> to_sqlalchemy(e.subs[j])])
             mine == CASE e.k = "$and" -> <<SaAnd(inner)>>
                       [] e.k = "$or" -> <<SaOr(inner)>>
                       [] e.k = "$nor" -> <<SaNot(SaOr(inner))>>
                       [] e.k \in MongoOnly -> <<>>
                       [] OTHER -> <<SaAnd(OpsToSql(e.ops, NestedField(e.k)))>>
         IN  mine \o to_sqlalchemy(Tail(sel))

RECURSIVE OpsToRedis(_, _)
\* the to_redis() tuples of the operator predicates of a field, flattened
OpsToRedis(ops, col) ==
    IF ops = <<>> THEN <<>>
    ELSE LET o == Head(ops)
             mine == CASE o.op \in MongoOnly -> <<>>
                       [] o.op = "$not" -> <<Bool("not", <<_redis_and(OpsToRedis(o.sub, col))>>)>>
                       [] OTHER -> <<Emit(o, col)>>
         IN  mine \o OpsToRedis(Tail(ops), col)

RECURSIVE to_redis(_)
\* RootPredicate.to_redis: the tuple of filters of a selector
to_redis(sel) ==
    IF sel = <<>> THEN <<>>
    ELSE LET e == Head(sel)
             inner == Flatten([j \in 1..Len(e.subs) |-> to_redis(e.subs[j])])
             mine == CASE e.k = "$and" -> <<_redis_and(inner)>>
                       [] e.k = "$or" -> <<_redis_or(inner)>>
                       [] e.k = "$nor" ->
                            <<_redis_and([j \in 1..Len(inner) |-> Bool("not", <<inner[j]>>)])>>
                       [] e.k \in MongoOnly -> <<>>
                       [] OTHER -> <<_redis_and(OpsToRedis(e.ops, NestedField(e.k)))>>
         IN  mine \o to_redis(Tail(sel))

\* the first error of a sequence of outcomes ("none": no error)
RECURSIVE FirstError(_)
FirstError(es) ==
    IF es = <<>> THEN "none"
    ELSE IF Head(es) # "none" THEN Head(es) ELSE FirstError(Tail(es))

RECURSIVE OpsParseError(_)
\* QueryParser._parse of the value of a field: a scalar has no items(), and
\* _get_predicate_cls raises for a key that starts with $ and is not in the
\* registry
OpsParseError(ops) ==
    FirstError([i \in 1..Len(ops) |->
        IF ops[i].op = "" THEN "AttributeError"
        ELSE IF ops[i].op \notin Registry
        THEN IF StartsWithDollar(ops[i].op) THEN "NotImplementedError" ELSE "AttributeError"
        ELSE IF ops[i].op = "$not" THEN OpsParseError(ops[i].sub)
        ELSE "none"])

RECURSIVE ParseError(_)
\* RootPredicate.__init__: the error raised while the selector is parsed, if any
ParseError(sel) ==
    FirstError([i \in 1..Len(sel) |->
        LET e == sel[i] IN
        IF e.k \in {"$and", "$or", "$nor"}
        THEN FirstError([j \in 1..Len(e.subs) |-> ParseError(e.subs[j])])
        ELSE IF e.k \in MongoOnly THEN "none"
        ELSE IF e.k \notin Registry /\ StartsWithDollar(e.k) THEN "NotImplementedError"
        ELSE IF e.k \notin KnownPaths THEN "AttributeError"
        ELSE OpsParseError(e.ops)])

\* a variant in which the kv emission of every operator is taken to succeed
NoRedisError(ops) == "none"

RECURSIVE OpsRedisError(_)
\* the error raised by the to_redis() calls of the operator predicates of a field
OpsRedisError(ops) ==
    FirstError([i \in 1..Len(ops) |->
        IF ops[i].op = "$regex" THEN "NotImplementedError"
        ELSE IF ops[i].op = "$not"
        THEN FirstError(<<OpsRedisError(ops[i].sub),
                          IF OpsToRedis(ops[i].sub, "") = <<>> THEN "TypeError" ELSE "none">>)
        ELSE "none"])

RECURSIVE EmitRedisError(_)
\* the error raised by RootPredicate.to_redis, if any: $regex is not supported,
\* and reduce() of an empty list of expressions raises TypeError
EmitRedisError(sel) ==
    FirstError([i \in 1..Len(sel) |->
        LET e == sel[i] IN
        IF e.k \in {"$and", "$or", "$nor"}
        THEN LET inner == [j \in 1..Len(e.subs) |-> EmitRedisError(e.subs[j])]
             IN  IF FirstError(inner) # "none" THEN FirstError(inner)
                 ELSE IF Flatten([j \in 1..Len(e.subs) |-> to_redis(e.subs[j])]) = <<>>
                      THEN "TypeError" ELSE "none"
        ELSE IF e.k \in MongoOnly THEN "none"
        ELSE IF OpsRedisError(e.ops) # "none" THEN OpsRedisError(e.ops)
        ELSE IF OpsToRedis(e.ops, "") = <<>> THEN "TypeError" ELSE "none"])

\* QueryParser.to_redis: "none", or the error the translation raises
RedisTranslationError(sel) ==
    IF ParseError(sel) # "none" THEN ParseError(sel) ELSE EmitRedisError(sel)

\* ------------------------------------------------------------ evaluation
Compare(op, x, v, vs) ==
    CASE op = "eq" -> x = v [] op = "ne" -> x # v
      [] op = "gt" -> x > v [] op = "ge" -> x >= v
      [] op = "lt" -> x < v [] op = "le" -> x <= v
      [] op = "in" -> x \in vs [] op = "notin" -> x \notin vs
      [] op = "regex" -> x \in vs [] op = "notregex" -> x \notin vs

RECURSIVE SqlHolds(_, _, _)
\* a relational filter on one row of the FROM clause: the library row l and,
\* when sqlbook is in the FROM clause, the book row b
SqlHolds(f, l, b) ==
    CASE f.t = "cmp" ->
            Compare(f.op, CASE f.col = "id" -> l.id [] f.col = "name" -> l.name
                            [] f.col = "address" -> l.address [] f.col = "title" -> b.title
                            [] f.col = "library_id" -> b.library_id [] f.col = "notes" -> 0,
                    f.val, f.vals)
      [] f.t = "and" -> \A i \in 1..Len(f.args) : SqlHolds(f.args[i], l, b)
      [] f.t = "or" -> \E i \in 1..Len(f.args) : SqlHolds(f.args[i], l, b)
      [] f.t = "not" -> ~SqlHolds(f.args[1], l, b)

RECURSIVE KvHolds(_, _)
\* a kv filter on a record [id, name, address, books]: a predicate on the
\* embedded books.title holds when some embedded book satisfies it
KvHolds(f, r) ==
    CASE f.t = "cmp" ->
            IF f.col = "title"
            THEN \E i \in 1..Len(r.books) : Compare(f.op, r.books[i], f.val, f.vals)
            ELSE Compare(f.op, CASE f.col = "id" -> r.id [] f.col = "name" -> r.name
                                 [] f.col = "address" -> r.address
                                 [] f.col = "notes" -> 0,
                         f.val, f.vals)
      [] f.t = "and" -> \A i \in 1..Len(f.args) : KvHolds(f.args[i], r)
      [] f.t = "or" -> \E i \in 1..Len(f.args) : KvHolds(f.args[i], r)
      [] f.t = "not" -> ~KvHolds(f.args[1], r)

\* ---------------------------------------------------------------- inputs
\* The selectors the application passes as query=...  Index 0 stands for
\* "no query".  Values 1, 2, 3 stand for three strings in increasing order.
Selectors == <<
    <<Fld("address", <<Op("$eq", 1)>>)>>,
    <<Fld("name", <<Op("$eq", 1)>>), Fld("address", <<Op("$eq", 2)>>)>>,
    <<Logic("$and", << <<Fld("name", <<OpNot(<<Op("$eq", 2)>>)>>)>>,
                       <<Fld("address", <<Op("$eq", 1)>>)>> >>)>>,
    <<Logic("$or", << <<Logic("$nor", << <<Fld("name", <<Op("$eq", 1)>>)>> >>)>>,
                      <<Fld("address", <<OpIn("$in", {2})>>)>> >>)>>,
    <<Fld("books.title", <<Op("$eq", 1)>>)>>,
    <<Fld("books.title", <<Op("$gte", 2), Op("$lte", 2)>>)>>,
    <<Fld("name", <<OpIn("$regex", {1})>>)>>,
    <<Logic("$or", << <<Fld("address", <<Op("$eq", 1)>>)>>,
                      <<Fld("name", <<OpIn("$regex", {2}), Op("$options", 0)>>)>> >>)>>,
    <<Fld("address", <<OpNot(<<OpIn("$regex", {1})>>)>>)>>,
    <<Logic("$and", << <<Fld("books.title", <<Op("$eq", 1)>>)>>,
                       <<Fld("address", <<Op("$eq", 1)>>)>> >>)>>,
    <<Fld("books.title", <<OpIn("$in", {1, 2})>>)>>
>>

NoQuery == 0
QueryIds == 0..Len(Selectors)
Query(q) == IF q = NoQuery THEN <<>> ELSE Selectors[q]

\* The native filters the application passes as *filters: an expression of the
\* store (relational and kv) or a filter dict (document).  Index 0: none.
NativeFilters == <<
    <<Cmp("name", "eq", 1)>>
>>
NativeDicts == <<
    <<Fld("name", <<Op("$eq", 1)>>)>>
>>
FilterIds == 0..Len(NativeFilters)
Native(f) == IF f = 0 THEN <<>> ELSE NativeFilters[f]
NativeDict(f) == IF f = 0 THEN <<>> ELSE NativeDicts[f]

\* The updates dicts: address = None means the key is absent, hasBooks tells
\* whether the key "books" is present, books is its list of titles.
\* op is "" for a dict of field keys {address: ..., books: ...} and "$set" for
\* the same dict under the update operator: {"$set": {address: ..., books: ...}}.
Upd(address, hasBooks, bs) ==
    [op |-> "", mixed |-> "", address |-> address, hasBooks |-> hasBooks, books |-> bs]
UnderSet(u) == [u EXCEPT !.op = "$set"]
\* the dict {"$set": u, "name": ...} or {"name": ..., "$set": u}: an update
\* operator and a plain field side by side; first tells which key comes first
Mixed(u, first) == [u EXCEPT !.op = "$set", !.mixed = first]
Updates == <<
    Upd(2, FALSE, <<>>),
    Upd(None, TRUE, <<>>),
    Upd(None, TRUE, <<3>>),
    Upd(1, TRUE, <<1, 3>>),
    UnderSet(Upd(1, FALSE, <<>>)),
    Mixed(Upd(1, FALSE, <<>>), "operator"),
    Mixed(Upd(1, FALSE, <<>>), "field")
>>
UpdateIds == 1..Len(Updates)

\* The lists of items given to insert
Item(name, address, bs) == [name |-> name, address |-> address, books |-> bs]
InsertInputs == <<
    <<Item(1, 1, <<1, 2>>)>>,
    <<Item(2, 1, <<>>)>>,
    <<Item(1, 2, <<1>>), Item(2, 2, <<2>>)>>
>>
InsertIds == 1..Len(InsertInputs)

\* skip, limit and sort of find
Paging(skip, limit, sort) == [skip |-> skip, limit |-> limit, sort |-> sort]
Pagings == <<
    Paging(0, None, ""),
    Paging(1, None, ""),
    Paging(0, 1, ""),
    Paging(0, None, "name"),
    Paging(1, 1, "address")
>>
PagingIds == 1..Len(Pagings)

\* ------------------------------------------------------------- records
\* What a store hands back for one record: the scalar fields and the related
\* (embedded) books in insertion order; bids are the row ids of the related
\* rows (empty on the kv and the document store, whose books are embedded).
View(id, name, address, bs, bids) ==
    [id |-> id, name |-> name, address |-> address, books |-> bs, bids |-> bids]

BooksOf(id, bs) == {b \in bs : b.library_id = id}

\* the relational row l loaded with its relationship (subqueryload)
Loaded(l, bs) ==
    View(l.id, l.name, l.address,
         SortedByKey({[key |-> b.id, item |-> b.title] : b \in BooksOf(l.id, bs)}),
         {b.id : b \in BooksOf(l.id, bs)})

\* the records of the store in use, as the application sees them
Records ==
    IF store = "sql" THEN {Loaded(l, books) : l \in libs} ELSE recs

\* the record as the selector language sees it
AsDoc(v) == [id |-> v.id, name |-> v.name, address |-> v.address, titles |-> Range(v.books)]

SortValue(x, sort) ==
    CASE sort = "name" -> x.name [] sort = "address" -> x.address [] OTHER -> 0

\* -------------------------------------------------------- relational store
\* the book columns of a row whose FROM clause has no sqlbook table
NoBook == [id |-> 0, title |-> 0, library_id |-> 0]

IdIn(ids) == CmpIn("id", "in", ids)

\* a filter one of whose immediate children is a column of the related table:
\* only a comparison has columns as immediate children (get_children())
OnRelatedTable(f) == f.t = "cmp" /\ f.col = "title"
NotOnRelatedTable(f) == ~OnRelatedTable(f)

RECURSIVE RefersRelated(_)
\* a filter that mentions a column of the related table at any depth
RefersRelated(f) ==
    IF f.t = "cmp" THEN f.col = "title"
    ELSE \E i \in 1..Len(f.args) : RefersRelated(f.args[i])

\* _get_filtered_relations: is the relation "books" referenced by the filters
_get_filtered_relations(fs) == \E i \in 1..Len(fs) : OnRelatedTable(fs[i])

\* The rows of the FROM clause of select(model) with the given WHERE filters:
\* an inner join for a relation found by _get_filtered_relations; otherwise a
\* table that only the WHERE clause mentions is added to FROM as it is (a
\* cartesian product); otherwise the model's table alone.
FromRows(fs, ls, bs) ==
    IF _get_filtered_relations(fs)
    THEN {rw \in [l : ls, b : bs] : rw.b.library_id = rw.l.id}
    ELSE IF \E i \in 1..Len(fs) : RefersRelated(fs[i])
    THEN [l : ls, b : bs]
    ELSE [l : ls, b : {NoBook}]

WhereRows(fs, ls, bs) ==
    {rw \in FromRows(fs, ls, bs) : \A i \in 1..Len(fs) : SqlHolds(fs[i], rw.l, rw.b)}

\* _find: one result per row of the statement, ordered by the sort columns
\* (then in row order), OFFSET skip, LIMIT limit, each with its books loaded
_find(fs, ls, bs, skip, limit, sort) ==
    LET ordered == SortedByKey({[key |-> SortValue(rw.l, sort) * 10000
                                         + rw.l.id * 100 + rw.b.id,
                                 item |-> rw.l] : rw \in WhereRows(fs, ls, bs)})
        page == Page(ordered, skip, limit)
    IN  [i \in 1..Len(page) |-> Loaded(page[i], bs)]

\* _get_relational_filters: the filters on the related table, turned into one
\* filter "id IN (SELECT id FROM model JOIN related WHERE those filters)"
_get_relational_filters(fs, ls, bs) ==
    LET plain == SelectSeq(fs, OnRelatedTable)
    IN  IF plain = <<>> THEN <<>>
        ELSE <<IdIn({rw.l.id : rw \in WhereRows(plain, ls, bs)})>>

_get_non_relational_filters(fs) == SelectSeq(fs, NotOnRelatedTable)

\* the filters of one call: the native ones, then the translated selector
SqlFilters(f, q) == Native(f) \o to_sqlalchemy(Query(q))

\* what a call leaves behind
Outcome(ls, bs, nb, rs, np, result, err) ==
    [libs |-> ls, books |-> bs, nextBookId |-> nb, recs |-> rs, nextPk |-> np,
     result |-> result, err |-> err]

Raised(err) == Outcome(libs, books, nextBookId, recs, nextPk, <<>>, err)

\* the new rows of the related table: ids are assigned in list order
NewBooks(embedded_values, firstId) ==
    {[id |-> firstId + k - 1, title |-> embedded_values[k].title,
      library_id |-> embedded_values[k].library_id] : k \in 1..Len(embedded_values)}

\* a variant that leaves the foreign key of the children unset
EmbedWithoutForeignKey(parentId, titles) ==
    [j \in 1..Len(titles) |-> [title |-> titles[j], library_id |-> 0]]

\* _embed_related_value, one-to-many: the children of a parent, with the
\* foreign key set to the parent's id
_embed_related_value(parentId, titles) ==
    [j \in 1..Len(titles) |-> [title |-> titles[j], library_id |-> parentId]]

\* SQLStore.insert.  INSERT .. RETURNING hands the new rows back in the order
\* of the items, with ids that grow in that order.
SqlInsert(items) ==
    LET n == Len(items)
        ids == [i \in 1..n |-> nextLibId + i - 1]
        results == {[id |-> ids[i], name |-> items[i].name, address |-> items[i].address]
                       : i \in 1..n}
        embedded_values == Flatten([i \in 1..n |-> _embed_related_value(ids[i], items[i].books)])
        libs1 == libs \cup results
        books1 == IF Len(embedded_values) > 0
                  THEN books \cup NewBooks(embedded_values, nextBookId) ELSE books
    IN  Outcome(libs1, books1, nextBookId + Len(embedded_values), recs, nextPk,
                _find(<<IdIn(Range(ids))>>, libs1, books1, 0, None, ""), "none")

\* SQLStore.find
SqlFind(f, q, p) ==
    IF ParseError(Query(q)) # "none" THEN Raised(ParseError(Query(q)))
    ELSE Outcome(libs, books, nextBookId, recs, nextPk,
                 _find(SqlFilters(f, q), libs, books, p.skip, p.limit, p.sort), "none")

\* _update_non_embedded_fields: the parents the update works on, in order.
\* With scalar updates it is UPDATE .. WHERE .. RETURNING: each row of the
\* model's table that some row of the FROM clause matches, once.  Without, it
\* is _find: one result per matching row of the statement.
_update_non_embedded_fields(fs, u) ==
    IF u.address # None
    THEN SortedByKey({[key |-> l.id, item |-> [l EXCEPT !.address = u.address]]
                         : l \in {rw.l : rw \in WhereRows(fs, libs, books)}})
    ELSE SortedByKey({[key |-> rw.l.id * 100 + rw.b.id, item |-> rw.l]
                         : rw \in WhereRows(fs, libs, books)})

\* SQLStore.update.  An UPDATE whose WHERE clause mentions another table is
\* either rejected when the statement is compiled (multiTableSupported =
\* FALSE) or rendered as UPDATE .. FROM, depending on the database in use.
SqlUpdate(f, q, u, multiTableSupported) ==
    IF ParseError(Query(q)) # "none" THEN Raised(ParseError(Query(q)))
    ELSE
    LET fs == SqlFilters(f, q)
        filters == _get_non_relational_filters(fs) \o _get_relational_filters(fs, libs, books)
        multiTable == \E i \in 1..Len(filters) : RefersRelated(filters[i])
    IN
    IF u.address # None /\ multiTable /\ ~multiTableSupported THEN Raised("CompileError")
    ELSE
    LET results == _update_non_embedded_fields(filters, u)
        result_ids == {results[i].id : i \in 1..Len(results)}
        libs1 == {l \in libs : l.id \notin result_ids} \cup Range(results)
        embedded_values ==
            IF u.hasBooks
            THEN Flatten([i \in 1..Len(results) |-> _embed_related_value(results[i].id, u.books)])
            ELSE <<>>
        fk_values == result_ids
        books1 == IF Len(embedded_values) > 0
                  THEN {b \in books : b.library_id \notin fk_values}
                       \cup NewBooks(embedded_values, nextBookId)
                  ELSE books
    IN  Outcome(libs1, books1, nextBookId + Len(embedded_values), recs, nextPk,
                _find(<<IdIn(result_ids)>>, libs1, books1, 0, None, ""), "none")

\* SQLStore.delete.  A DELETE whose WHERE clause mentions another table is
\* either rejected when the statement is compiled (multiTableSupported =
\* FALSE) or rendered as DELETE .. USING, depending on the database in use.
SqlDelete(f, q, multiTableSupported) ==
    IF ParseError(Query(q)) # "none" THEN Raised(ParseError(Query(q)))
    ELSE
    LET fs == SqlFilters(f, q)
        deleted_items == _find(fs, libs, books, 0, None, "")
        filters == _get_non_relational_filters(fs) \o _get_relational_filters(fs, libs, books)
        multiTable == \E i \in 1..Len(filters) : RefersRelated(filters[i])
        gone == {rw.l : rw \in WhereRows(filters, libs, books)}
    IN  IF multiTable /\ ~multiTableSupported THEN Raised("CompileError")
        ELSE Outcome(libs \ gone, books, nextBookId, recs, nextPk, deleted_items, "none")

\* ------------------------------------------------------ kv / document store
\* the records in primary-key order
ById(rs) == SortedByKey({[key |-> r.id, item |-> r] : r \in rs})

\* the records the items of an insert become: keys are assigned in list order
NewRecords(items) ==
    [i \in 1..Len(items) |->
        View(nextPk + i - 1, items[i].name, items[i].address, items[i].books, {})]

\* Model.update(**updates) / {"$set": updates}: the given keys are replaced
Patched(r, u) ==
    [r EXCEPT !.address = IF u.address # None THEN u.address ELSE @,
              !.books = IF u.hasBooks THEN u.books ELSE @]

\* model.find(*filters, *nql_filters) of redis-om: all the expressions hold
RedisMatched(f, q) ==
    {r \in recs : \A i \in 1..Len(Native(f) \o to_redis(Query(q))) :
                     KvHolds((Native(f) \o to_redis(Query(q)))[i], r)}

\* RedisStore.insert
RedisInsert(items) ==
    Outcome(libs, books, nextBookId, recs \cup Range(NewRecords(items)),
            nextPk + Len(items), NewRecords(items), "none")

\* RedisStore.find
RedisFind(f, q, p) ==
    IF RedisTranslationError(Query(q)) # "none" THEN Raised(RedisTranslationError(Query(q)))
    ELSE Outcome(libs, books, nextBookId, recs, nextPk,
                 Page(SortedByKey({[key |-> SortValue(r, p.sort) * 100 + r.id, item |-> r]
                                      : r \in RedisMatched(f, q)}),
                      p.skip, p.limit),
                 "none")

\* RedisStore.update
RedisUpdate(f, q, u) ==
    IF RedisTranslationError(Query(q)) # "none" THEN Raised(RedisTranslationError(Query(q)))
    ELSE LET matched_items == RedisMatched(f, q)
             updated_pks == {r.id : r \in matched_items}
             recs1 == (recs \ matched_items) \cup {Patched(r, u) : r \in matched_items}
         IN  Outcome(libs, books, nextBookId, recs1, nextPk,
                     ById({r \in recs1 : r.id \in updated_pks}), "none")

\* RedisStore.delete
RedisDelete(f, q) ==
    IF RedisTranslationError(Query(q)) # "none" THEN Raised(RedisTranslationError(Query(q)))
    ELSE Outcome(libs, books, nextBookId, recs \ RedisMatched(f, q), nextPk,
                 ById(RedisMatched(f, q)), "none")

\* model.find(*all_filters) of beanie: every filter dict holds
MongoMatched(f, q) ==
    {r \in recs : SelectorHolds(NativeDict(f), AsDoc(r)) /\ SelectorHolds(Query(q), AsDoc(r))}

\* MongoStore.insert
MongoInsert(items) ==
    Outcome(libs, books, nextBookId, recs \cup Range(NewRecords(items)),
            nextPk + Len(items), NewRecords(items), "none")

\* MongoStore.find: skip and limit are handed to the driver, sort is not
MongoFind(f, q, p) ==
    Outcome(libs, books, nextBookId, recs, nextPk,
            Page(ById(MongoMatched(f, q)), p.skip, p.limit), "none")

\* a variant that hands the updates dict to the driver as it was given
SentAsGiven(updates) == updates

\* _to_mongo_updates: a dict with a key that starts with $ is returned as it
\* is, any other dict is put under $set
_to_mongo_updates(updates) ==
    IF updates.op # "" THEN updates ELSE [updates EXCEPT !.op = "$set"]

\* a variant of the driver that applies the operators of a document and
\* ignores its other keys
OperatorsOnly(doc) == IF doc.op # "$set" THEN "WriteError" ELSE "none"

\* cursor.update(mongo_updates): update_many takes an update-operator
\* document only.  The driver refuses a document whose first key is not an
\* operator before it sends anything; the server refuses one with a key that
\* is not an operator; nothing is written in either case.
UpdateManyError(doc) ==
    CASE doc.op # "$set" -> "WriteError"
      [] doc.mixed = "field" -> "ValueError"
      [] doc.mixed = "operator" -> "WriteError"
      [] OTHER -> "none"

\* MongoStore.update
MongoUpdate(f, q, u) ==
    LET mongo_updates == _to_mongo_updates(u)
        matched == MongoMatched(f, q)
        ids == {r.id : r \in matched}
        recs1 == (recs \ matched) \cup {Patched(r, mongo_updates) : r \in matched}
    IN  IF UpdateManyError(mongo_updates) # "none"
        THEN Raised(UpdateManyError(mongo_updates))
        ELSE Outcome(libs, books, nextBookId, recs1, nextPk,
                     ById({r \in recs1 : r.id \in ids}), "none")

\* MongoStore.delete
MongoDelete(f, q) ==
    Outcome(libs, books, nextBookId, recs \ MongoMatched(f, q), nextPk,
            ById(MongoMatched(f, q)), "none")

\* ------------------------------------------------------------ behaviour
Stores == {"sql", "redis", "mongo"}

\* the ids SQLStore.find returns for the filters of the call, before the call
Found(op, f, q) ==
    IF store = "sql" /\ op \in {"update", "delete"} /\ ParseError(Query(q)) = "none"
    THEN {v.id : v \in Range(_find(SqlFilters(f, q), libs, books, 0, None, ""))}
    ELSE {}

Call(op, f, q, u, ins, p, out) ==
    [op |-> op, f |-> f, q |-> q, u |-> u, ins |-> ins, p |-> p,
     pre |-> Records, found |-> Found(op, f, q),
     result |-> out.result, err |-> out.err]

\* no call is under observation
NoCall == [op |-> "none", f |-> 0, q |-> 0, u |-> 0, ins |-> 0, p |-> 1,
           pre |-> {}, found |-> {}, result |-> <<>>, err |-> "none"]

\* ---- the store registry of the example applications (examples/*/stores.py)
Uris == {"SQL_URL", "REDIS_URL"}    \* the URIs found in the environment
Requests == {1, 2}                  \* requests served concurrently on one event loop
MaxStores == 3                      \* store instances constructed in one behaviour
MaxClears == 1                      \* clear_stores() calls in one behaviour
MaxRaises == 1                      \* register() calls that raise in one behaviour

\* a request that is not inside get_*_store(), and has no store yet
Idle == [pc |-> "idle", uri |-> "", store |-> 0, since |-> 0]

\* the store instances constructed so far: registered ones, those whose
\* register() call raised and those whose register() call is still awaited
Constructed ==
    Len(registered) + Len(raised)
        + Cardinality({r \in Requests : requests[r].pc = "registering"})

\* no call on SqlPost is under observation
NoPostCall == [op |-> "none", ins |-> 0, ids |-> {}, u |-> 0, err |-> "none",
               pre |-> [posts |-> {}, tags |-> {}, taglinks |-> {}], new |-> <<>>]

\* the callers whose calls may overlap
Callers == {1, 2}

\* the caller has no call in flight
NoSession == [pc |-> "idle"]

\* nothing has been seen yet
NoObservation == [op |-> "none"]

\* no selector has been translated on its own
NoProbe == [kind |-> "none", a |-> 0, b |-> 0, name |-> 0, address |-> 0, holds |-> FALSE,
            err |-> "none", filters |-> <<>>, warnings |-> 0]

Init ==
    /\ store \in Stores
    /\ libs = {}
    /\ books = {}
    /\ nextLibId = 1
    /\ nextBookId = 1
    /\ recs = {}
    /\ nextPk = 1
    /\ last = NoCall
    /\ probe = NoProbe
    /\ _STORES = [u \in Uris |-> 0]
    /\ requests = [r \in Requests |-> Idle]
    /\ registered = <<>>
    /\ clears = 0
    /\ raised = <<>>
    /\ posts = {}
    /\ comments = {}
    /\ tags = {}
    /\ taglinks = {}
    /\ lastPost = NoPostCall
    /\ sessions = [c \in Callers |-> NoSession]
    /\ seen = NoObservation
    /\ database = 0

\* the call leaves the store as its outcome says
Apply(op, f, q, u, ins, p, out) ==
    /\ last = NoCall
    /\ out.nextBookId - 1 <= MaxBooks
    /\ libs' = out.libs
    /\ books' = out.books
    /\ nextBookId' = out.nextBookId
    /\ recs' = out.recs
    /\ nextPk' = out.nextPk
    /\ last' = Call(op, f, q, u, ins, p, out)
    /\ UNCHANGED <<store, probe>>
    /\ UNCHANGED <<registryVars, blogVars, concVars>>

Insert(i) ==
    /\ IF store = "sql" THEN nextLibId + Len(InsertInputs[i]) - 1 <= MaxLibs
                        ELSE nextPk + Len(InsertInputs[i]) - 1 <= MaxRecs
    /\ nextLibId' = IF store = "sql" THEN nextLibId + Len(InsertInputs[i]) ELSE nextLibId
    /\ Apply("insert", 0, 0, 0, i, 1,
             CASE store = "sql" -> SqlInsert(InsertInputs[i])
               [] store = "redis" -> RedisInsert(InsertInputs[i])
               [] store = "mongo" -> MongoInsert(InsertInputs[i]))

Find(f, q, p) ==
    /\ UNCHANGED nextLibId
    /\ Apply("find", f, q, 0, 0, p,
             CASE store = "sql" -> SqlFind(f, q, Pagings[p])
               [] store = "redis" -> RedisFind(f, q, Pagings[p])
               [] store = "mongo" -> MongoFind(f, q, Pagings[p]))

\* a dict of update operators is the document store's own update language
Update(f, q, u) ==
    /\ Updates[u].op = "" \/ store = "mongo"
    /\ UNCHANGED nextLibId
    /\ \E multiTableSupported \in BOOLEAN :
         Apply("update", f, q, u, 0, 1,
               CASE store = "sql" -> SqlUpdate(f, q, Updates[u], multiTableSupported)
                 [] store = "redis" -> RedisUpdate(f, q, Updates[u])
                 [] store = "mongo" -> MongoUpdate(f, q, Updates[u]))

Delete(f, q) ==
    /\ UNCHANGED nextLibId
    /\ \E multiTableSupported \in BOOLEAN :
         Apply("delete", f, q, 0, 0, 1,
               CASE store = "sql" -> SqlDelete(f, q, multiTableSupported)
                 [] store = "redis" -> RedisDelete(f, q)
                 [] store = "mongo" -> MongoDelete(f, q))

\* the caller has looked at the outcome of its call and goes on to the next
Return ==
    /\ last # NoCall
    /\ last' = NoCall
    /\ UNCHANGED <<store, libs, books, nextLibId, nextBookId, recs, nextPk, probe>>
    /\ UNCHANGED <<registryVars, blogVars, concVars>>

Next ==
    \/ \E i \in InsertIds : Insert(i)
    \/ \E f \in FilterIds, q \in QueryIds, p \in PagingIds : Find(f, q, p)
    \/ \E f \in FilterIds, q \in QueryIds, u \in UpdateIds : Update(f, q, u)
    \/ \E f \in FilterIds, q \in QueryIds : Delete(f, q)
    \/ Return

Spec == Init /\ [][Next]_vars

\* ----------------------------------------------- the translator on its own
\* QueryParser.to_sql / to_redis applied to one selector, and the filters it
\* emits evaluated on one record (name, address) of a model without relations.
SubSelectors == <<
    <<Fld("name", <<Op("$eq", 1)>>)>>,
    <<Fld("address", <<Op("$gt", 1)>>)>>,
    <<Fld("name", <<Op("$eq", 1)>>), Fld("address", <<Op("$eq", 2)>>)>>,
    <<Fld("name", <<Op("$gte", 2), Op("$lte", 3)>>)>>,
    <<Fld("name", <<OpIn("$in", {1, 3})>>), Fld("address", <<Op("$ne", 1)>>)>>
>>
OperatorMaps == <<
    <<Op("$eq", 1)>>,
    <<Op("$gte", 2), Op("$lte", 2)>>,
    <<OpIn("$in", {1, 3})>>,
    <<OpIn("$nin", {2}), Op("$lt", 3)>>
>>
Fields == <<"name", "address">>
MaxValue == 3    \* names and addresses of the record the filters are evaluated on

\* do the filters emitted for the selector all hold on the record
Emitted(sel, name, address) ==
    CASE store = "sql" ->
            \A i \in 1..Len(to_sqlalchemy(sel)) :
                SqlHolds(to_sqlalchemy(sel)[i],
                         [id |-> 1, name |-> name, address |-> address], NoBook)
      [] store = "redis" ->
            \A i \in 1..Len(to_redis(sel)) :
                KvHolds(to_redis(sel)[i], View(1, name, address, <<>>, {}))
      [] store = "mongo" ->
            SelectorHolds(sel, [id |-> 1, name |-> name, address |-> address, titles |-> {}])

RECURSIVE OpsWarnings(_)
\* the calls of MongoOnlyPredicate.to_sqlalchemy / to_redis under a field
OpsWarnings(ops) ==
    IF ops = <<>> THEN 0
    ELSE (IF Head(ops).op \in MongoOnly THEN 1 ELSE OpsWarnings(Head(ops).sub))
         + OpsWarnings(Tail(ops))

RECURSIVE SumOf(_)
SumOf(ns) == IF ns = <<>> THEN 0 ELSE Head(ns) + SumOf(Tail(ns))

RECURSIVE Warnings(_)
\* the logging.warning calls of a translation of the selector that completes
Warnings(sel) ==
    IF sel = <<>> THEN 0
    ELSE LET e == Head(sel)
         IN  (IF e.k \in MongoOnly THEN 1
              ELSE OpsWarnings(e.ops) + SumOf([j \in 1..Len(e.subs) |-> Warnings(e.subs[j])]))
             + Warnings(Tail(sel))

\* QueryParser.to_sql / to_redis: "none", or the error the translation raises
\* (MongoStore hands the selector to the driver as it is)
TranslationError(sel) ==
    CASE store = "sql" -> ParseError(sel)
      [] store = "redis" -> RedisTranslationError(sel)
      [] store = "mongo" -> "none"

\* what the caller of QueryParser.to_sql / to_redis observes for the
\* selector: the error raised or the filters returned, the warnings logged,
\* and whether the filters hold on the record (name, address)
Translated(kind, a, b, sel, name, address) ==
    LET err == TranslationError(sel) IN
    [kind |-> kind, a |-> a, b |-> b, name |-> name, address |-> address,
     holds |-> IF err = "none" THEN Emitted(sel, name, address) ELSE FALSE,
     err |-> err,
     filters |-> IF err # "none" \/ store = "mongo" THEN <<>>
                 ELSE IF store = "sql" THEN to_sqlalchemy(sel) ELSE to_redis(sel),
     warnings |-> IF err = "none" /\ store # "mongo" THEN Warnings(sel) ELSE 0]

\* {kind: [A, B]} with kind one of $and, $or, $nor
TranslateLogical(kind, a, b, name, address) ==
    /\ probe = NoProbe
    /\ probe' = Translated(kind, a, b, <<Logic(kind, <<SubSelectors[a], SubSelectors[b]>>)>>,
                           name, address)
    /\ UNCHANGED <<store, libs, books, nextLibId, nextBookId, recs, nextPk, last>>
    /\ UNCHANGED <<registryVars, blogVars, concVars>>

\* {field: {$not: ops}}
TranslateNot(a, b, name, address) ==
    /\ probe = NoProbe
    /\ probe' = Translated("$not", a, b, <<Fld(Fields[b], <<OpNot(OperatorMaps[a])>>)>>,
                           name, address)
    /\ UNCHANGED <<store, libs, books, nextLibId, nextBookId, recs, nextPk, last>>
    /\ UNCHANGED <<registryVars, blogVars, concVars>>

\* The selectors translated on their own.  $exists, $type, $size and $text
\* are operators of the document store only; $between and $like are in no
\* registry; values 1, 2, 3 stand for three strings in increasing order.
ParserInputs == <<
    <<Fld("name", <<Op("$eq", 1), Op("$exists", 1)>>)>>,
    <<Fld("name", <<Op("$exists", 1)>>)>>,
    <<Logic("$and", << <<Fld("name", <<Op("$type", 1)>>)>>,
                       <<Fld("address", <<Op("$eq", 2)>>)>> >>)>>,
    <<Logic("$or", << <<Fld("name", <<Op("$eq", 1), Op("$exists", 1)>>)>>,
                      <<Fld("address", <<Op("$eq", 2)>>)>> >>)>>,
    <<Fld("$text", <<>>), Fld("name", <<Op("$eq", 1)>>)>>,
    <<Logic("$nor", << <<Fld("name", <<Op("$size", 1), Op("$lt", 2)>>)>> >>)>>,
    <<Fld("address", <<OpNot(<<Op("$exists", 1), Op("$gt", 1)>>)>>)>>,
    <<Fld("name", <<Op("$between", 1)>>)>>,
    <<Fld("name", <<Op("$eq", 1)>>), Fld("$like", <<>>)>>,
    <<Logic("$and", << <<Fld("name", <<Op("$eq", 1)>>)>>,
                       <<Fld("address", <<OpNot(<<Op("$gt", 1), Op("$between", 2)>>)>>)>> >>)>>,
    <<Logic("$or", << <<Logic("$nor", << <<Fld("$like", <<>>)>> >>)>>,
                      <<Fld("address", <<Op("$eq", 2)>>)>> >>)>>,
    <<Fld("name", <<Scalar(1)>>)>>,
    <<Fld("name", <<Op("$gte", 1)>>), Fld("address", <<Scalar(2)>>)>>,
    <<Logic("$and", << <<Fld("name", <<Scalar(1)>>)>>,
                       <<Fld("address", <<Op("$gt", 1)>>)>> >>)>>
>>

\* a selector given by the application
Translate(s, name, address) ==
    /\ probe = NoProbe
    /\ probe' = Translated("selector", s, 0, ParserInputs[s], name, address)
    /\ UNCHANGED <<store, libs, books, nextLibId, nextBookId, recs, nextPk, last>>
    /\ UNCHANGED <<registryVars, blogVars, concVars>>

InitQuery ==
    /\ Init
    /\ store \in {"sql", "redis"}

NextQuery ==
    \/ \E kind \in {"$and", "$or", "$nor"}, a \in 1..Len(SubSelectors), b \in 1..Len(SubSelectors),
          name \in 1..MaxValue, address \in 1..MaxValue :
            TranslateLogical(kind, a, b, name, address)
    \/ \E a \in 1..Len(OperatorMaps), b \in 1..Len(Fields),
          name \in 1..MaxValue, address \in 1..MaxValue :
            TranslateNot(a, b, name, address)
    \/ \E s \in 1..Len(ParserInputs), name \in 1..MaxValue, address \in 1..MaxValue :
            Translate(s, name, address)

SpecQuery == InitQuery /\ [][NextQuery]_vars

\* ------------------------------------------------------ the store registry
\* get_redis_store / get_sql_store / get_mongo_store up to its await: the
\* registry is looked up; on KeyError a store is constructed and
\* store.register(models) is awaited, which lets other requests run
GetStore(r, uri) ==
    /\ requests[r].pc \in {"idle", "returned", "raised"}
    /\ IF _STORES[uri] # 0
       THEN requests' = [requests EXCEPT ![r] =
                [pc |-> "returned", uri |-> uri, store |-> _STORES[uri], since |-> clears]]
       ELSE /\ Constructed < MaxStores
            /\ requests' = [requests EXCEPT ![r] =
                [pc |-> "registering", uri |-> uri, store |-> Constructed + 1, since |-> clears]]
    /\ UNCHANGED <<_STORES, registered, clears, raised>>
    /\ UNCHANGED <<store, libs, books, nextLibId, nextBookId, recs, nextPk, last, probe>>
    /\ UNCHANGED <<blogVars, concVars>>

\* the rest of get_*_store after the await: register() has completed, the
\* store is put in the registry and returned
Registered(r) ==
    /\ requests[r].pc = "registering"
    /\ registered' = Append(registered, [store |-> requests[r].store, uri |-> requests[r].uri,
                                         since |-> requests[r].since])
    /\ _STORES' = [_STORES EXCEPT ![requests[r].uri] = requests[r].store]
    /\ requests' = [requests EXCEPT ![r].pc = "returned"]
    /\ UNCHANGED <<clears, raised>>
    /\ UNCHANGED <<store, libs, books, nextLibId, nextBookId, recs, nextPk, last, probe>>
    /\ UNCHANGED <<blogVars, concVars>>

\* a variant that puts the store in the registry before register() is awaited
EntryWritten(r) == [_STORES EXCEPT ![requests[r].uri] = requests[r].store]

\* the registry after register() has raised in the call of request r: the
\* exception leaves get_*_store before _STORES[url] = store
EntryOnRaise(r) == _STORES

\* register() raises: the exception propagates to the caller
RegisterRaises(r) ==
    /\ requests[r].pc = "registering"
    /\ Len(raised) < MaxRaises
    /\ _STORES' = EntryOnRaise(r)
    /\ raised' = Append(raised, [store |-> requests[r].store, uri |-> requests[r].uri])
    /\ requests' = [requests EXCEPT ![r].pc = "raised"]
    /\ UNCHANGED <<registered, clears>>
    /\ UNCHANGED <<store, libs, books, nextLibId, nextBookId, recs, nextPk, last, probe>>
    /\ UNCHANGED <<blogVars, concVars>>

\* clear_stores
ClearStores ==
    /\ clears < MaxClears
    /\ _STORES' = [u \in Uris |-> 0]
    /\ clears' = clears + 1
    /\ UNCHANGED <<requests, registered, raised>>
    /\ UNCHANGED <<store, libs, books, nextLibId, nextBookId, recs, nextPk, last, probe>>
    /\ UNCHANGED <<blogVars, concVars>>

NextStores ==
    \/ \E r \in Requests, uri \in Uris : GetStore(r, uri)
    \/ \E r \in Requests : Registered(r)
    \/ \E r \in Requests : RegisterRaises(r)
    \/ ClearStores

SpecStores == Init /\ [][NextStores]_vars

\* ------------------------------------- many-to-many through a link model
\* The blog example: SqlPost has the one-to-many relation comments and the
\* many-to-many relation tags, whose link model is SqlTagLink(id, post_id,
\* tag_id).  Tag titles and comment contents are small integers.
MaxPosts == 2         \* sqlpost rows ever inserted in one behaviour
MaxCommentId == 4     \* largest id of sqlcomment in one behaviour
MaxTagLinkId == 4     \* largest id of sqltaglink in one behaviour

\* the largest id of a table (0 when it is empty)
MaxIdOf(rows) ==
    IF rows = {} THEN 0 ELSE CHOOSE m \in {r.id : r \in rows} : \A r \in rows : r.id <= m

\* the ids in increasing order
IdsInOrder(ids) == SortedByKey({[key |-> i, item |-> i] : i \in ids})

\* Python's s[a:b] for 0 <= a <= b
PySlice(s, a, b) ==
    IF a >= Len(s) THEN <<>> ELSE SubSeq(s, a + 1, IF b < Len(s) THEN b ELSE Len(s))

RECURSIVE InsertTags(_, _)
\* insert(SqlTag).on_conflict_do_nothing().returning(SqlTag) with one value
\* per title: a title that is in the table already is skipped and not returned
InsertTags(titles, table) ==
    IF titles = <<>> THEN [table |-> table, returned |-> <<>>]
    ELSE LET row == [id |-> MaxIdOf(table) + 1, title |-> Head(titles)]
             conflict == \E x \in table : x.title = Head(titles)
             rest == InsertTags(Tail(titles), IF conflict THEN table ELSE table \cup {row})
         IN  [table |-> rest.table,
              returned |-> (IF conflict THEN <<>> ELSE <<row>>) \o rest.returned]

\* insert(SqlComment): the values get the next ids in order
InsertComments(values, table) ==
    table \cup {[id |-> MaxIdOf(table) + k, post_id |-> values[k].post_id,
                 content |-> values[k].content] : k \in 1..Len(values)}

\* _embed_related_value for the one-to-many relation comments of each parent
EmbeddedComments(parents, contents) ==
    Flatten([i \in 1..Len(parents) |->
        [j \in 1..Len(contents) |-> [post_id |-> parents[i], content |-> contents[j]]]])

\* _embed_related_value for the many-to-many relation tags of each parent:
\* the children carry no reference to the parent
EmbeddedTags(parents, titles) == Flatten([i \in 1..Len(parents) |-> titles])

\* the tables and the outcome of a call on SqlPost
PostOutcome(ps, cs, ts, ls, new, err) ==
    [posts |-> ps, comments |-> cs, tags |-> ts, taglinks |-> ls, new |-> new, err |-> err]

\* an item of insert: a post with its comments and its tags
PostItem(cs, ts) == [comments |-> cs, tags |-> ts]
PostInputs == <<
    <<PostItem(<<>>, <<1>>)>>,
    <<PostItem(<<1>>, <<1, 2>>)>>,
    <<PostItem(<<>>, <<>>), PostItem(<<>>, <<2>>)>>
>>

\* SQLStore.insert(SqlPost, items): the parents, then for every relation the
\* embedded values of all parents
BlogInsert(items) ==
    LET new == [i \in 1..Len(items) |-> MaxIdOf(posts) + i]
        cvalues == Flatten([i \in 1..Len(items) |-> EmbeddedComments(<<new[i]>>, items[i].comments)])
        tvalues == Flatten([i \in 1..Len(items) |-> EmbeddedTags(<<new[i]>>, items[i].tags)])
    IN  PostOutcome(posts \cup {[id |-> new[i]] : i \in 1..Len(items)},
                    InsertComments(cvalues, comments),
                    InsertTags(tvalues, tags).table,
                    taglinks, new, "none")

\* the updates dicts of update: the relation keys in the order of the dict,
\* and the list given for each
RelationUpdates(order, cs, ts) == [order |-> order, comments |-> cs, tags |-> ts]
PostUpdates == <<
    RelationUpdates(<<"tags">>, <<>>, <<3>>),
    RelationUpdates(<<"comments", "tags">>, <<1>>, <<3>>),
    RelationUpdates(<<"comments", "tags">>, <<>>, <<1, 2>>),
    RelationUpdates(<<"tags", "comments">>, <<2>>, <<2>>),
    RelationUpdates(<<"tags">>, <<>>, <<>>)
>>

\* SQLStore.update, lines 247-380, for the relation comments (no link model):
\* fk_field is assigned; with values to embed, the children of the parents
\* are deleted and the new ones inserted
UpdateComments(contents, parents, st) ==
    LET embedded_values == EmbeddedComments(parents, contents)
        kept == {c \in st.comments : c.post_id \notin Range(parents)}
    IN  [st EXCEPT !.fk_bound = TRUE,
                   !.comments = IF embedded_values = <<>> THEN @
                                ELSE InsertComments(embedded_values, kept)]

\* SQLStore.update, lines 247-380, for the relation tags (link model
\* SqlTagLink): fk_field is read although this branch does not assign it; the
\* children are inserted; the link rows whose id is the id of a parent are
\* deleted (getattr(link_model, parent_id_field_name)); a link row is
\* inserted for every parent and every returned child in its index range
UpdateTags(titles, parents, st) ==
    LET embedded_values == EmbeddedTags(parents, titles)
        inserted == InsertTags(embedded_values, st.tags)
        kept == {l \in st.taglinks : l.id \notin Range(parents)}
        next_id == MaxIdOf(kept) + 1
        through_table_values ==
            Flatten([i \in 1..Len(parents) |->
                LET children == PySlice(inserted.returned, (i - 1) * Len(titles), i * Len(titles))
                IN  [j \in 1..Len(children) |->
                        [post_id |-> parents[i], tag_id |-> children[j].id]]])
    IN  IF embedded_values = <<>> THEN st
        ELSE IF ~st.fk_bound THEN [st EXCEPT !.err = "UnboundLocalError"]
        ELSE [st EXCEPT !.tags = inserted.table,
                        !.taglinks = kept \cup
                            {[id |-> next_id + idx - 1,
                              post_id |-> through_table_values[idx].post_id,
                              tag_id |-> through_table_values[idx].tag_id] :
                                idx \in 1..Len(through_table_values)}]

RECURSIVE UpdateRelations(_, _, _, _)
\* for k, v in embedded_updates.items(): ...
UpdateRelations(keys, u, parents, st) ==
    IF keys = <<>> \/ st.err # "none" THEN st
    ELSE UpdateRelations(Tail(keys), u, parents,
            IF Head(keys) = "comments" THEN UpdateComments(u.comments, parents, st)
            ELSE UpdateTags(u.tags, parents, st))

\* SQLStore.update(SqlPost, query={"id": {"$in": ids}}, updates=u): an error
\* leaves the session without a commit
BlogUpdate(ids, u) ==
    LET parents == IdsInOrder({x.id : x \in posts} \cap ids)
        st == UpdateRelations(u.order, u, parents,
                [comments |-> comments, tags |-> tags, taglinks |-> taglinks,
                 fk_bound |-> FALSE, err |-> "none"])
    IN  IF st.err # "none" THEN PostOutcome(posts, comments, tags, taglinks, <<>>, st.err)
        ELSE PostOutcome(posts, st.comments, st.tags, st.taglinks, parents, "none")

ApplyPost(op, ins, ids, u, out) ==
    /\ MaxIdOf(out.comments) <= MaxCommentId
    /\ MaxIdOf(out.taglinks) <= MaxTagLinkId
    /\ posts' = out.posts
    /\ comments' = out.comments
    /\ tags' = out.tags
    /\ taglinks' = out.taglinks
    /\ lastPost' = [op |-> op, ins |-> ins, ids |-> ids, u |-> u, err |-> out.err,
                    pre |-> [posts |-> {x.id : x \in posts}, tags |-> tags,
                             taglinks |-> taglinks],
                    new |-> out.new]
    /\ UNCHANGED <<store, libs, books, nextLibId, nextBookId, recs, nextPk, last, probe>>
    /\ UNCHANGED <<registryVars, concVars>>

InsertPosts(i) ==
    /\ Cardinality(posts) + Len(PostInputs[i]) <= MaxPosts
    /\ ApplyPost("insert", i, {}, 0, BlogInsert(PostInputs[i]))

UpdatePosts(ids, u) ==
    /\ ids # {}
    /\ ApplyPost("update", 0, ids, u, BlogUpdate(ids, PostUpdates[u]))

\* the items of insert(SqlTag, ...): one title each
TagInputs == <<
    <<1>>,
    <<3>>,
    <<1, 3>>
>>

\* SQLStore.insert(SqlTag, items): the statement for the rows of the model
\* itself is insert(model).returning(model), with no on-conflict clause; a
\* title that is in the table already, or twice in the items, breaks the
\* unique constraint, and the session ends without a commit
TagInsert(titles) ==
    LET rows == [k \in 1..Len(titles) |-> [id |-> MaxIdOf(tags) + k, title |-> titles[k]]]
        conflict == \/ \E k \in 1..Len(titles), x \in tags : x.title = titles[k]
                    \/ \E j, k \in 1..Len(titles) : j # k /\ titles[j] = titles[k]
    IN  IF conflict THEN PostOutcome(posts, comments, tags, taglinks, <<>>, "IntegrityError")
        ELSE PostOutcome(posts, comments, tags \cup Range(rows), taglinks,
                         [k \in 1..Len(titles) |-> rows[k].id], "none")

InsertTagRows(i) ==
    /\ i \in 1..Len(TagInputs)
    /\ ApplyPost("insert_tags", i, {}, 0, TagInsert(TagInputs[i]))

InitBlog ==
    /\ Init
    /\ store = "sql"

NextBlog ==
    \/ \E i \in 1..Len(PostInputs) : InsertPosts(i)
    \/ \E ids \in {{1}, {2}, {1, 2}}, u \in 1..Len(PostUpdates) : UpdatePosts(ids, u)
    \/ \E i \in 1..Len(TagInputs) : InsertTagRows(i)

SpecBlog == InitBlog /\ [][NextBlog]_vars

\* ------------------------------------------------ fields kept per backend
\* find(query={path: {$eq: v}}) on the model compiled for the store, for
\* every path of the schema, up to the filters the store hands to its driver
FindByField(i, v, name, address) ==
    /\ probe = NoProbe
    /\ probe' = Translated("field", i, v, <<Fld(SchemaFields[i].path, <<Op("$eq", v)>>)>>,
                           name, address)
    /\ UNCHANGED <<store, libs, books, nextLibId, nextBookId, recs, nextPk, last>>
    /\ UNCHANGED <<registryVars, blogVars, concVars>>

NextFields ==
    \E i \in 1..Len(SchemaFields), v \in 1..MaxValue,
       name \in 1..MaxValue, address \in 1..MaxValue : FindByField(i, v, name, address)

SpecFields == Init /\ [][NextFields]_vars

\* ------------------------------------------- calls that overlap in time
\* SQLStore.update statement by statement.  Every statement of the call runs
\* in the call's own AsyncSession, and the session is committed once, at the
\* end; find opens a session of its own.  A session holds, besides what is
\* committed, the rows its own statements have written.

\* no caller has a statement pending on the relational tables
NoWriter == \A c \in Callers : sessions[c].pc = "idle"

\* a variant in which a find reads the rows the other session has written
DirtyRead(c) == [libs |-> sessions[c].libs, books |-> sessions[c].books]

\* the tables as the session of a find sees them while c's call is in flight:
\* what has been committed
Visible(c) == [libs |-> libs, books |-> books]

\* the records of the given tables, as the application sees them
ViewsOf(ls, bs) == {Loaded(l, bs) : l \in ls}

\* the children the call is to write: one list per parent of results
EmbeddedValues(s) ==
    IF Updates[s.u].hasBooks
    THEN Flatten([i \in 1..Len(s.results) |->
                     _embed_related_value(s.results[i].id, Updates[s.u].books)])
    ELSE <<>>

\* SQLStore.insert statement by statement: the rows of the model, then the
\* rows of the relation, then the commit.  An exception or a cancellation
\* before the commit leaves the async with block, which closes the session.

\* a variant in which the rows of the model are committed when they are written
ParentsKept(s) == [libs |-> s.libs, books |-> books, nextLibId |-> s.nl]

\* the tables after the session s is closed without a commit: what the
\* session wrote is rolled back
Closed(s) == [libs |-> libs, books |-> books, nextLibId |-> nextLibId]

\* the children of the new parents
InsertedValues(s) ==
    Flatten([i \in 1..Len(InsertInputs[s.i]) |->
                _embed_related_value(s.ids[i], InsertInputs[s.i][i].books)])

\* insert, first statement: insert(model).returning(model)
InsertBegin(c, i) ==
    /\ store = "sql"
    /\ NoWriter
    /\ last = NoCall
    /\ nextLibId + Len(InsertInputs[i]) - 1 <= MaxLibs
    /\ SqlInsert(InsertInputs[i]).nextBookId - 1 <= MaxBooks
    /\ LET items == InsertInputs[i]
           ids == [k \in 1..Len(items) |-> nextLibId + k - 1]
           out == SqlInsert(items)
       IN  sessions' = [sessions EXCEPT ![c] =
               [pc |-> "parents", op |-> "insert", i |-> i, ids |-> ids,
                libs |-> libs \cup {[id |-> ids[k], name |-> items[k].name,
                                     address |-> items[k].address] : k \in 1..Len(items)},
                books |-> books, nb |-> nextBookId, nl |-> nextLibId + Len(items),
                before |-> ViewsOf(libs, books),
                after |-> ViewsOf(out.libs, out.books)]]
    /\ UNCHANGED <<store, libs, books, nextLibId, nextBookId, recs, nextPk, last, probe>>
    /\ UNCHANGED <<seen, database, registryVars, blogVars>>

\* insert, the statement for the related rows
InsertEmbed(c) ==
    /\ sessions[c].pc = "parents"
    /\ Len(InsertedValues(sessions[c])) > 0
    /\ LET s == sessions[c]
       IN  sessions' = [sessions EXCEPT ![c] =
               [s EXCEPT !.pc = "children",
                         !.books = s.books \cup NewBooks(InsertedValues(s), s.nb),
                         !.nb = s.nb + Len(InsertedValues(s))]]
    /\ UNCHANGED <<store, libs, books, nextLibId, nextBookId, recs, nextPk, last, probe>>
    /\ UNCHANGED <<seen, database, registryVars, blogVars>>

\* insert raises or is cancelled before its commit: a child does not
\* validate, its statement fails, the task is cancelled at an await
InsertFail(c) ==
    /\ sessions[c].pc \in {"parents", "children"}
    /\ libs' = Closed(sessions[c]).libs
    /\ books' = Closed(sessions[c]).books
    /\ nextLibId' = Closed(sessions[c]).nextLibId
    /\ seen' = [op |-> "rollback", pc |-> sessions[c].pc, during |-> "insert",
                views |-> ViewsOf(libs', books'),
                before |-> sessions[c].before, after |-> sessions[c].after]
    /\ sessions' = [sessions EXCEPT ![c] = NoSession]
    /\ UNCHANGED <<store, nextBookId, recs, nextPk, last, probe>>
    /\ UNCHANGED <<database, registryVars, blogVars>>

\* insert, session.commit()
InsertCommit(c) ==
    /\ \/ sessions[c].pc = "children"
       \/ sessions[c].pc = "parents" /\ Len(InsertedValues(sessions[c])) = 0
    /\ libs' = sessions[c].libs
    /\ books' = sessions[c].books
    /\ nextLibId' = sessions[c].nl
    /\ nextBookId' = sessions[c].nb
    /\ seen' = [op |-> "commit", pc |-> sessions[c].pc, during |-> "insert",
                views |-> ViewsOf(libs', books'),
                before |-> sessions[c].before, after |-> sessions[c].after]
    /\ sessions' = [sessions EXCEPT ![c] = NoSession]
    /\ UNCHANGED <<store, recs, nextPk, last, probe>>
    /\ UNCHANGED <<database, registryVars, blogVars>>

\* update, first statement: _update_non_embedded_fields in a new session
UpdateBegin(c, f, q, u) ==
    /\ store = "sql"
    /\ NoWriter
    /\ last = NoCall
    /\ Updates[u].op = ""
    /\ SqlUpdate(f, q, Updates[u], TRUE).err = "none"
    /\ SqlUpdate(f, q, Updates[u], TRUE).nextBookId - 1 <= MaxBooks
    /\ LET fs == SqlFilters(f, q)
           filters == _get_non_relational_filters(fs)
                          \o _get_relational_filters(fs, libs, books)
           results == _update_non_embedded_fields(filters, Updates[u])
           result_ids == {results[i].id : i \in 1..Len(results)}
           out == SqlUpdate(f, q, Updates[u], TRUE)
       IN  sessions' = [sessions EXCEPT ![c] =
               [pc |-> "updated", op |-> "update", u |-> u, results |-> results,
                libs |-> {l \in libs : l.id \notin result_ids} \cup Range(results),
                books |-> books, nb |-> nextBookId,
                before |-> ViewsOf(libs, books),
                after |-> ViewsOf(out.libs, out.books)]]
    /\ UNCHANGED <<store, libs, books, nextLibId, nextBookId, recs, nextPk, last, probe>>
    /\ UNCHANGED <<seen, database, registryVars, blogVars>>

\* update, the reset statement: delete the children of the updated parents
UpdateReset(c) ==
    /\ sessions[c].pc = "updated"
    /\ Len(EmbeddedValues(sessions[c])) > 0
    /\ LET s == sessions[c]
           fk_values == {s.results[i].id : i \in 1..Len(s.results)}
       IN  sessions' = [sessions EXCEPT ![c] =
               [s EXCEPT !.pc = "reset",
                         !.books = {b \in s.books : b.library_id \notin fk_values}]]
    /\ UNCHANGED <<store, libs, books, nextLibId, nextBookId, recs, nextPk, last, probe>>
    /\ UNCHANGED <<seen, database, registryVars, blogVars>>

\* update, the insert of the new children
UpdateEmbed(c) ==
    /\ sessions[c].pc = "reset"
    /\ LET s == sessions[c]
       IN  sessions' = [sessions EXCEPT ![c] =
               [s EXCEPT !.pc = "embedded",
                         !.books = s.books \cup NewBooks(EmbeddedValues(s), s.nb),
                         !.nb = s.nb + Len(EmbeddedValues(s))]]
    /\ UNCHANGED <<store, libs, books, nextLibId, nextBookId, recs, nextPk, last, probe>>
    /\ UNCHANGED <<seen, database, registryVars, blogVars>>

\* update, session.commit(): the rows of the session become the tables
UpdateCommit(c) ==
    /\ \/ sessions[c].pc = "embedded"
       \/ sessions[c].pc = "updated" /\ Len(EmbeddedValues(sessions[c])) = 0
    /\ libs' = sessions[c].libs
    /\ books' = sessions[c].books
    /\ nextBookId' = sessions[c].nb
    /\ seen' = [op |-> "commit", pc |-> sessions[c].pc, during |-> "update",
                views |-> ViewsOf(libs', books'),
                before |-> sessions[c].before, after |-> sessions[c].after]
    /\ sessions' = [sessions EXCEPT ![c] = NoSession]
    /\ UNCHANGED <<store, nextLibId, recs, nextPk, last, probe>>
    /\ UNCHANGED <<database, registryVars, blogVars>>

\* SQLStore.find by another caller while c's call is in flight
FindDuring(c, f, q) ==
    /\ store = "sql"
    /\ sessions[c].pc \in {"updated", "reset", "embedded", "parents", "children"}
    /\ ParseError(Query(q)) = "none"
    /\ seen' = [op |-> "find", pc |-> sessions[c].pc, during |-> sessions[c].op,
                views |-> Range(_find(SqlFilters(f, q), Visible(c).libs, Visible(c).books,
                                      0, None, "")),
                before |-> sessions[c].before, after |-> sessions[c].after]
    /\ UNCHANGED <<store, libs, books, nextLibId, nextBookId, recs, nextPk, last, probe>>
    /\ UNCHANGED <<sessions, database, registryVars, blogVars>>

\* insert as one step, while no call is in flight
InsertAlone(i) ==
    /\ NoWriter
    /\ Insert(i)

InitSessions ==
    /\ Init
    /\ store = "sql"

NextSessions ==
    \/ \E i \in InsertIds : InsertAlone(i)
    \/ Return
    \/ \E c \in Callers, f \in FilterIds, q \in {0, 1, 5}, u \in UpdateIds : UpdateBegin(c, f, q, u)
    \/ \E c \in Callers : UpdateReset(c)
    \/ \E c \in Callers : UpdateEmbed(c)
    \/ \E c \in Callers : UpdateCommit(c)
    \/ \E c \in Callers, f \in FilterIds, q \in {0, 1, 5} : FindDuring(c, f, q)
    \/ \E c \in Callers, i \in InsertIds : InsertBegin(c, i)
    \/ \E c \in Callers : InsertEmbed(c)
    \/ \E c \in Callers : InsertFail(c)
    \/ \E c \in Callers : InsertCommit(c)

SpecSessions == InitSessions /\ [][NextSessions]_vars

\* delete in its two steps: the find that collects what is to be returned,
\* then the statement that removes what matches when it runs.  On the
\* relational store the find runs in a session of its own.

\* delete, first step: the items that match now
DeleteFind(c, f, q) ==
    /\ sessions[c].pc = "idle"
    /\ ParseError(Query(q)) = "none"
    /\ RedisTranslationError(Query(q)) = "none"
    /\ sessions' = [sessions EXCEPT ![c] =
           [pc |-> "found", op |-> "delete", f |-> f, q |-> q,
            items |-> CASE store = "sql" -> SqlFind(f, q, Pagings[1]).result
                        [] store = "redis" -> RedisFind(f, q, Pagings[1]).result
                        [] store = "mongo" -> MongoFind(f, q, Pagings[1]).result]]
    /\ UNCHANGED <<store, libs, books, nextLibId, nextBookId, recs, nextPk, last, probe>>
    /\ UNCHANGED <<seen, database, registryVars, blogVars>>

\* delete, second step.  Relational: delete(model).where(filters), commit.
\* Kv: delete_many(matched_items) removes the keys of the items found.
\* Document: cursor.delete() is delete_many(query).
DeleteStatement(c) ==
    /\ sessions[c].pc = "found"
    /\ LET s == sessions[c]
           matched_pks == {s.items[i].id : i \in 1..Len(s.items)}
       IN  /\ libs' = IF store = "sql" THEN SqlDelete(s.f, s.q, TRUE).libs ELSE libs
           /\ recs' = CASE store = "sql" -> recs
                        [] store = "redis" -> {r \in recs : r.id \notin matched_pks}
                        [] store = "mongo" -> MongoDelete(s.f, s.q).recs
           /\ seen' = [op |-> "delete", returned |-> matched_pks,
                       removed |-> {v.id : v \in Records}
                                     \ (IF store = "sql" THEN {l.id : l \in libs'}
                                                         ELSE {r.id : r \in recs'})]
    /\ sessions' = [sessions EXCEPT ![c] = NoSession]
    /\ UNCHANGED <<store, books, nextLibId, nextBookId, nextPk, last, probe>>
    /\ UNCHANGED <<database, registryVars, blogVars>>

NextOverlap ==
    \/ \E i \in InsertIds : Insert(i)
    \/ Return
    \/ \E c \in Callers, f \in FilterIds, q \in {0, 1} : DeleteFind(c, f, q)
    \/ \E c \in Callers : DeleteStatement(c)

SpecOverlap == Init /\ [][NextOverlap]_vars

\* SQLStore.update(SqlPost, ...) by callers whose sessions overlap, on a
\* database that lets sessions write side by side.  A session reads what is
\* committed and what it has written itself; ids that the database assigns
\* (sqltag, sqlcomment) come from a counter shared by all sessions, and a row
\* that would break a unique index, also against a row another session has
\* written, is skipped.  The ids of the link rows are computed by the call.

\* the rows the other callers have written and not yet committed
Pending(c, field) ==
    UNION {sessions[x][field] : x \in {y \in Callers \ {c} : sessions[y].pc = "linking"}}

\* update up to the last statement before the commit: the statements for the
\* relations, the link rows with ids from max(id) + 1 among them
UpdateLinksBegin(c, ids, u) ==
    /\ store = "sql"
    /\ sessions[c].pc = "idle"
    /\ ids # {}
    /\ LET parents == IdsInOrder({x.id : x \in posts} \cap ids)
           st0 == [comments |-> comments \cup Pending(c, "newComments"),
                   tags |-> tags \cup Pending(c, "newTags"),
                   taglinks |-> taglinks, fk_bound |-> FALSE, err |-> "none"]
           st == UpdateRelations(PostUpdates[u].order, PostUpdates[u], parents, st0)
       IN  /\ st.err = "none"
           /\ MaxIdOf(st.comments) <= MaxCommentId
           /\ MaxIdOf(st.taglinks) <= MaxTagLinkId
           /\ sessions' = [sessions EXCEPT ![c] =
                  [pc |-> "linking", op |-> "update", ids |-> ids, u |-> u,
                   newComments |-> st.comments \ st0.comments,
                   goneComments |-> comments \ st.comments,
                   newTags |-> st.tags \ st0.tags,
                   goneLinks |-> taglinks \ st.taglinks,
                   newLinks |-> st.taglinks \ taglinks]]
    /\ UNCHANGED <<store, libs, books, nextLibId, nextBookId, recs, nextPk, last, probe>>
    /\ UNCHANGED <<seen, database, registryVars, blogVars>>

\* session.commit(): the rows of the session reach the tables; a link row
\* whose primary key (id, post_id, tag_id) is in the table is not written
UpdateLinksCommit(c) ==
    /\ sessions[c].pc = "linking"
    /\ LET s == sessions[c]
       IN  /\ comments' = (comments \ s.goneComments) \cup s.newComments
           /\ tags' = tags \cup s.newTags
           /\ taglinks' = (taglinks \ s.goneLinks) \cup s.newLinks
           /\ seen' = [op |-> "links", written |-> s.newLinks,
                       dropped |-> s.newLinks \cap (taglinks \ s.goneLinks),
                       present |-> taglinks \ s.goneLinks]
    /\ sessions' = [sessions EXCEPT ![c] = NoSession]
    /\ UNCHANGED <<posts, lastPost>>
    /\ UNCHANGED <<store, libs, books, nextLibId, nextBookId, recs, nextPk, last, probe>>
    /\ UNCHANGED <<database, registryVars>>

\* insert as one step, while no call is in flight
InsertPostsAlone(i) ==
    /\ NoWriter
    /\ InsertPosts(i)

\* the id filters of the overlapping updates: the first post, or both posts
LinkTargets == {{1}, {1, 2}}

NextLinks ==
    \/ \E i \in 1..Len(PostInputs) : InsertPostsAlone(i)
    \/ \E c \in Callers, ids \in LinkTargets, u \in 1..Len(PostUpdates) :
          UpdateLinksBegin(c, ids, u)
    \/ \E c \in Callers : UpdateLinksCommit(c)

SpecLinks == InitBlog /\ [][NextLinks]_vars

\* Two RedisStore instances, 1 and 2, registered with the same model classes.
\* The connection is held on the model class: every operation starts with
\* model.set_db(self._db), and each command it then awaits is sent through
\* the connection the class holds when the command is issued.

\* the operations with one awaited command, and those with two
OneCommand == {"insert", "find"}
TwoCommands == {"update", "delete"}

\* Model.db(): the connection on the model class
db(c) == database

\* set_db and the first command: model.add / query.all
KvBegin(c, op) ==
    /\ store = "redis"
    /\ sessions[c].pc = "idle"
    /\ database' = c
    /\ IF op \in OneCommand
       THEN /\ seen' = [op |-> op, store |-> c, via |-> {c}]
            /\ UNCHANGED sessions
       ELSE /\ sessions' = [sessions EXCEPT ![c] = [pc |-> "matched", op |-> op, via |-> {c}]]
            /\ UNCHANGED seen
    /\ UNCHANGED <<store, libs, books, nextLibId, nextBookId, recs, nextPk, last, probe>>
    /\ UNCHANGED <<registryVars, blogVars>>

\* the second command: item.update and the find of the updated keys, or
\* model.delete_many
KvFinish(c) ==
    /\ sessions[c].pc = "matched"
    /\ seen' = [op |-> sessions[c].op, store |-> c, via |-> sessions[c].via \cup {db(c)}]
    /\ sessions' = [sessions EXCEPT ![c] = NoSession]
    /\ UNCHANGED database
    /\ UNCHANGED <<store, libs, books, nextLibId, nextBookId, recs, nextPk, last, probe>>
    /\ UNCHANGED <<registryVars, blogVars>>

InitKv ==
    /\ Init
    /\ store = "redis"

NextKv ==
    \/ \E c \in Callers, op \in OneCommand \cup TwoCommands : KvBegin(c, op)
    \/ \E c \in Callers : KvFinish(c)

SpecKv == InitKv /\ [][NextKv]_vars

TypeOK == store \in Stores /\ nextLibId \in 1..(MaxLibs + 1) /\ nextPk \in 1..(MaxRecs + 1)

\* ------------------------------------------------------------ properties
\* The record v satisfies every native filter and the selector of the last
\* call, by the meaning of the selector language.
Matches(v) ==
    SelectorHolds(NativeDict(last.f), AsDoc(v)) /\ SelectorHolds(Query(last.q), AsDoc(v))

MatchingIds == {v.id : v \in {x \in last.pre : Matches(x)}}
ResultIds == {last.result[i].id : i \in 1..Len(last.result)}
Returned(op) == last.op = op /\ last.err = "none"

\* the version of a record that the updates dict asks for
Expected(v, u) ==
    [v EXCEPT !.address = IF u.address # None THEN u.address ELSE @,
              !.books = IF u.hasBooks THEN u.books ELSE @]

\* C1: on the relational store, after an update that assigns a list to the
\* one-to-many relation books, every parent that matched the filters has
\* exactly the titles of that list as its children and none of the rows it had
\* before the call; for every list, the empty one included.
C1_ChildrenReplaced ==
    (store = "sql" /\ Returned("update") /\ Updates[last.u].hasBooks) =>
        \A v \in last.pre :
            Matches(v) =>
                \E w \in Records : /\ w.id = v.id
                                   /\ w.books = Updates[last.u].books
                                   /\ w.bids \cap v.bids = {}

\* C2: on each store, update returns the post-update state of exactly the
\* records that matched the filters before the update was applied.
C2_UpdateReturnsMatched ==
    Returned("update") =>
        /\ ResultIds = MatchingIds
        /\ \A i \in 1..Len(last.result) : last.result[i] \in Records

\* C3: update leaves every record that does not match the filters as it was,
\* its children included, and every matching record becomes its updated version.
C3_UpdateFrame ==
    Returned("update") =>
        \A v \in last.pre :
            IF Matches(v)
            THEN \E w \in Records : /\ w.id = v.id
                                    /\ w.address = Expected(v, Updates[last.u]).address
                                    /\ w.books = Expected(v, Updates[last.u]).books
            ELSE v \in Records

\* C4: delete returns the state before the call, related records included, of
\* exactly the records that match the filters; afterwards the store holds
\* every record that did not match and none that did.
C4_DeleteReturnsMatched ==
    Returned("delete") =>
        /\ Range(last.result) = {v \in last.pre : Matches(v)}
        /\ Records = {v \in last.pre : ~Matches(v)}

\* element-wise equality of returned records and input items
SameAsItems(result, items) ==
    /\ Len(result) = Len(items)
    /\ \A i \in 1..Len(items) : /\ result[i].name = items[i].name
                                /\ result[i].address = items[i].address
                                /\ result[i].books = items[i].books

\* C5: on the relational store the records insert returns, and the records a
\* find by the returned ids gives right after, equal the input items element
\* by element, each parent with exactly the children given at its position.
C5_InsertRoundTrip ==
    (store = "sql" /\ Returned("insert")) =>
        /\ SameAsItems(last.result, InsertInputs[last.ins])
        /\ SameAsItems(_find(<<IdIn(ResultIds)>>, libs, books, 0, None, ""),
                       InsertInputs[last.ins])

\* an insert of one parent with two children into a table that already has
\* a parent with children of its own
C5_Witness ==
    /\ store = "sql" /\ Returned("insert")
    /\ Len(InsertInputs[last.ins]) = 1
    /\ Len(InsertInputs[last.ins][1].books) = 2
    /\ \E v \in last.pre : v.books # <<>>
    /\ Len(last.result) = 1 /\ Len(last.result[1].books) = 2

\* C7: on the relational store, find with a selector on the dotted path
\* books.title returns exactly the parents that have at least one related row
\* satisfying the predicate, and no parent without such a row.
C7_DottedPath ==
    (store = "sql" /\ Returned("find") /\ last.f = 0 /\ last.p = 1
        /\ last.q \in {5, 6}) =>
        ResultIds = MatchingIds

\* C8: find, update and delete given both native filters and a selector act
\* on exactly the records that satisfy every native filter and the selector.
C8_NativeAndSelector ==
    (last.op \in {"find", "update", "delete"} /\ last.err = "none"
        /\ last.f # 0 /\ last.q # NoQuery /\ last.p = 1) =>
        /\ ResultIds = MatchingIds
        /\ last.op = "delete" => {v.id : v \in Records} = {v.id : v \in last.pre} \ MatchingIds

\* the matching records in the order of the sort field (ties in key order)
Sorted(vs, sort) == SortedByKey({[key |-> SortValue(v, sort) * 100 + v.id, item |-> v] : v \in vs})

\* C9: on each store, find with skip, limit and sort returns the matching
\* records ordered by the sort field, without the first skip of them and at
\* most limit of the rest.
C9_SkipLimitSort ==
    (Returned("find") /\ last.q = NoQuery) =>
        last.result = Page(Sorted({v \in last.pre : Matches(v)}, Pagings[last.p].sort),
                           Pagings[last.p].skip, Pagings[last.p].limit)

RECURSIVE OpsHaveRegex(_)
OpsHaveRegex(ops) ==
    \E i \in 1..Len(ops) : ops[i].op = "$regex" \/ OpsHaveRegex(ops[i].sub)

RECURSIVE HasRegex(_)
\* the selector contains $regex somewhere
HasRegex(sel) ==
    \E i \in 1..Len(sel) :
        \/ OpsHaveRegex(sel[i].ops)
        \/ \E j \in 1..Len(sel[i].subs) : HasRegex(sel[i].subs[j])

\* C10: on the kv store, find, update and delete with a selector that
\* contains $regex raise NotImplementedError, hand back nothing and leave the
\* stored records as they were.
C10_RegexRaises ==
    (store = "redis" /\ last.op \in {"find", "update", "delete"} /\ HasRegex(Query(last.q))) =>
        /\ last.err = "NotImplementedError"
        /\ last.result = <<>>
        /\ Records = last.pre

\* a delete with $regex under $or, on a kv store that holds a record the
\* pattern matches
C10_Witness ==
    /\ store = "redis" /\ last.op = "delete" /\ last.q = 8
    /\ \E r \in recs : r.name = 2
    /\ last.err = "NotImplementedError"

\* the record the probe was evaluated on, as the selector language sees it
ProbeDoc == [id |-> 1, name |-> probe.name, address |-> probe.address, titles |-> {}]

\* C6: the filters emitted for {$and: [A, B]} hold exactly when A and B both
\* hold, for {$or: [A, B]} exactly when A or B holds, for {$nor: [A, B]}
\* exactly when neither holds, and for {field: {$not: ops}} exactly when
\* {field: ops} does not hold; A and B may have several field keys.
C6_LogicalOperators ==
    LET A == SelectorHolds(SubSelectors[probe.a], ProbeDoc)
        B == SelectorHolds(SubSelectors[probe.b], ProbeDoc)
    IN  /\ probe.kind = "$and" => (probe.holds <=> (A /\ B))
        /\ probe.kind = "$or" => (probe.holds <=> (A \/ B))
        /\ probe.kind = "$nor" => (probe.holds <=> ~(A \/ B))
        /\ probe.kind = "$not" =>
              (probe.holds <=> ~SelectorHolds(<<Fld(Fields[probe.b], OperatorMaps[probe.a])>>,
                                              ProbeDoc))

RECURSIVE StripOps(_)
\* an operator map without its document-only operators
StripOps(ops) ==
    IF ops = <<>> THEN <<>>
    ELSE LET o == Head(ops)
         IN  (CASE o.op \in MongoOnly -> <<>>
                [] o.op = "$not" -> <<OpNot(StripOps(o.sub))>>
                [] OTHER -> <<o>>) \o StripOps(Tail(ops))

RECURSIVE Strip(_)
\* a selector without its document-only operators
Strip(sel) ==
    IF sel = <<>> THEN <<>>
    ELSE LET e == Head(sel)
         IN  (CASE e.k \in MongoOnly -> <<>>
                [] e.k \in {"$and", "$or", "$nor"} ->
                     <<Logic(e.k, [j \in 1..Len(e.subs) |-> Strip(e.subs[j])])>>
                [] OTHER -> <<Fld(e.k, StripOps(e.ops))>>) \o Strip(Tail(sel))

\* C11: on the relational and the kv backend, the translation of a selector
\* that contains a document-only operator completes without raising, logs a
\* warning, and returns the filters of the selector without that operator; a
\* field whose operator map holds only such operators, and such a field under
\* $and / $or / $nor, included.
C11_DocumentOnlyIgnored ==
    (probe.kind = "selector" /\ Strip(ParserInputs[probe.a]) # ParserInputs[probe.a]) =>
        /\ probe.err = "none"
        /\ probe.warnings >= 1
        /\ probe.filters =
              Translated("selector", 0, 0, Strip(ParserInputs[probe.a]), 1, 1).filters

RECURSIVE OpsHaveUnknown(_)
OpsHaveUnknown(ops) ==
    \E i \in 1..Len(ops) :
        \/ ops[i].op \notin Registry \cup {""}
        \/ OpsHaveUnknown(ops[i].sub)

RECURSIVE HasUnknownOperator(_)
\* some key of the selector starts with $ and is in no registry
HasUnknownOperator(sel) ==
    \E i \in 1..Len(sel) :
        \/ sel[i].k \in {"$between", "$like"}
        \/ OpsHaveUnknown(sel[i].ops)
        \/ \E j \in 1..Len(sel[i].subs) : HasUnknownOperator(sel[i].subs[j])

WithEqOps(ops) == [i \in 1..Len(ops) |-> IF ops[i].op = "" THEN Op("$eq", ops[i].val) ELSE ops[i]]

RECURSIVE WithEq(_)
\* the selector with every {field: v} written as {field: {$eq: v}}
WithEq(sel) ==
    [i \in 1..Len(sel) |->
        IF sel[i].k \in {"$and", "$or", "$nor"}
        THEN Logic(sel[i].k, [j \in 1..Len(sel[i].subs) |-> WithEq(sel[i].subs[j])])
        ELSE Fld(sel[i].k, WithEqOps(sel[i].ops))]

\* C13: on the relational and the kv backend, a selector {field: v} with a
\* scalar v is translated without error to the filters of
\* {field: {$eq: v}}.
C13_ScalarIsEq ==
    (probe.kind = "selector" /\ WithEq(ParserInputs[probe.a]) # ParserInputs[probe.a]) =>
        /\ probe.err = "none"
        /\ probe.filters =
              Translated("selector", 0, 0, WithEq(ParserInputs[probe.a]), 1, 1).filters

\* C14: on the document store an updates dict without a top-level $ key is
\* sent to the driver as {$set: updates} and one with the update operator is
\* sent as it is, so that update with {address: x} and update with
\* {$set: {address: x}} both succeed and leave every matched record with
\* address x and every other record as it was.
C14_SetWrapping ==
    (store = "mongo" /\ last.op = "update" /\ Updates[last.u].address # None
        /\ Updates[last.u].mixed = "") =>
        /\ _to_mongo_updates(Updates[last.u]) = UnderSet(Updates[last.u])
        /\ last.err = "none"
        /\ \A v \in last.pre :
              IF Matches(v)
              THEN \E w \in Records : w.id = v.id /\ w.address = Updates[last.u].address
              ELSE v \in Records

\* {$set: {address: 1}} applied to a matched record whose address was 2,
\* while another record does not match
C14_Witness ==
    /\ store = "mongo" /\ Returned("update") /\ Updates[last.u].op = "$set"
    /\ \E v \in last.pre : Matches(v) /\ v.address = 2
    /\ \E v \in last.pre : ~Matches(v)
    /\ \E w \in Records : w.id \in MatchingIds /\ w.address = 1

\* C15: a field or relation declared disabled on the backend of the store is
\* absent from the model compiled for that backend, and a selector that
\* refers to it on that backend raises an error; a field that is not disabled
\* on the backend is part of its model and resolves.
C15_DisabledFields ==
    probe.kind = "field" =>
        IF store \in SchemaFields[probe.a].disabled
        THEN /\ SchemaFields[probe.a].path \notin get_field_definitions(store)
             /\ probe.err # "none"
        ELSE /\ SchemaFields[probe.a].path \in get_field_definitions(store)
             /\ probe.err = "none"

\* the register() calls completed for the URI since the given clear_stores()
RegisteredFor(uri, since) ==
    {i \in 1..Len(registered) : registered[i].uri = uri /\ registered[i].since = since}

C17_NoMatch ==
    (/\ last.op \in {"find", "update", "delete"}
     /\ MatchingIds = {}
     /\ ~(store = "redis" /\ HasRegex(Query(last.q)))
     /\ ~(last.op = "update" /\ Updates[last.u].mixed # "")) =>
        /\ last.err = "none"
        /\ last.result = <<>>
        /\ Records = last.pre

\* the rows of the link table of a parent, and the titles they lead to
LinksOf(p, links) == {l \in links : l.post_id = p}
TagTitlesOf(p, links, table) ==
    {t.title : t \in {x \in table : \E l \in LinksOf(p, links) : l.tag_id = x.id}}

\* C19: a relational insert of items that carry children of the many-to-many
\* relation tags writes, besides the parent and child rows, one link row
\* (parent id, child id) for every parent and each of its children, with ids
\* from max(id) + 1 on.
C19_InsertLinkRows ==
    lastPost.op = "insert" =>
        /\ lastPost.err = "none"
        /\ \A i \in 1..Len(lastPost.new) :
              LET mine == LinksOf(lastPost.new[i], taglinks)
                  given == Range(PostInputs[lastPost.ins][i].tags)
              IN  /\ TagTitlesOf(lastPost.new[i], taglinks, tags) = given
                  /\ Cardinality(mine) = Cardinality(given)
        /\ \A l \in taglinks \ lastPost.pre.taglinks : l.id > MaxIdOf(lastPost.pre.taglinks)

\* C18: a relational update with {tags: newList} leaves, for every parent
\* that matched, exactly the link rows (parent, child) of the children of
\* newList, none of them a row the parent had before; the link rows of the
\* parents that did not match are as they were.
C18_LinkRowsReplaced ==
    (lastPost.op = "update" /\ "tags" \in Range(PostUpdates[lastPost.u].order)) =>
        /\ lastPost.err = "none"
        /\ \A p \in lastPost.pre.posts :
              IF p \in lastPost.ids
              THEN /\ TagTitlesOf(p, taglinks, tags) = Range(PostUpdates[lastPost.u].tags)
                   /\ Cardinality(LinksOf(p, taglinks)) =
                          Cardinality(Range(PostUpdates[lastPost.u].tags))
                   /\ LinksOf(p, taglinks) \cap lastPost.pre.taglinks = {}
              ELSE LinksOf(p, taglinks) = LinksOf(p, lastPost.pre.taglinks)

\* the filters the UPDATE / DELETE statement of the call gets as they were
\* translated, i.e. not turned into the id IN (SELECT ...) filter
KeptAsGiven(f, q) == _get_non_relational_filters(SqlFilters(f, q))

\* the ids of the rows the last update or delete acted on
ActedOn ==
    IF last.op = "delete" THEN {v.id : v \in last.pre} \ {v.id : v \in Records}
    ELSE ResultIds

\* the selectors that filter on a column of the related table
RelatedSelectors == {q \in 1..Len(Selectors) :
                        \E i \in 1..Len(to_sqlalchemy(Selectors[q])) :
                            RefersRelated(to_sqlalchemy(Selectors[q])[i])}

\* C20: a relational update or delete whose selector filters on a column of
\* the related table, at the top level or inside $and/$or/$nor, hands its
\* statement no filter that still names the related table (each is applied as
\* id IN (SELECT id FROM self JOIN related WHERE ...)), so the statement is
\* accepted and acts on exactly the rows find returns for the same filters.
C20_RelatedFiltersBySubquery ==
    (store = "sql" /\ last.op \in {"update", "delete"} /\ last.q \in RelatedSelectors) =>
        /\ \A i \in 1..Len(KeptAsGiven(last.f, last.q)) :
               ~RefersRelated(KeptAsGiven(last.f, last.q)[i])
        /\ last.err = "none"
        /\ ActedOn = last.found


CreatedFor(uri, since) ==
    {requests[r].store : r \in {x \in Requests : /\ requests[x].pc = "registering"
                                                 /\ requests[x].uri = uri
                                                 /\ requests[x].since = since}}
        \cup {registered[i].store : i \in RegisteredFor(uri, since)}

\* C22: however the get_*_store calls for one URI interleave, at most one
\* store is constructed and registered for that URI (between two
\* clear_stores()), and every call returns that instance.
C22_OneStorePerUri ==
    \A uri \in Uris, since \in 0..MaxClears :
        /\ Cardinality(CreatedFor(uri, since)) <= 1
        /\ \A r \in Requests :
              (requests[r].pc = "returned" /\ requests[r].uri = uri
                  /\ requests[r].since = since) =>
                  requests[r].store \in CreatedFor(uri, since)

\* C23: on the relational store, insert of items of which some break a
\* uniqueness constraint of the model's own table raises no error: those
\* items are skipped, the others are inserted, and exactly the inserted
\* records are returned.
C23_ConflictSkipped ==
    lastPost.op = "insert_tags" =>
        /\ lastPost.err = "none"
        /\ {x.title : x \in tags} =
               {x.title : x \in lastPost.pre.tags} \cup Range(TagInputs[lastPost.ins])
        /\ Range(lastPost.new) = {x.id : x \in tags \ lastPost.pre.tags}

JoinedSelectors ==
    {q \in 1..Len(Selectors) : /\ ParseError(Selectors[q]) = "none"
                               /\ _get_filtered_relations(to_sqlalchemy(Selectors[q]))}

\* C25: on the relational store, the list that find returns (and delete
\* returns as what it removed) for a filter on the related table holds every
\* matching parent once, however many of its related rows satisfy the
\* filter, and skip and limit count parents.
C25_ParentsOnce ==
    (store = "sql" /\ last.op \in {"find", "delete"} /\ last.err = "none"
        /\ last.q \in JoinedSelectors) =>
        /\ \A i, j \in 1..Len(last.result) :
              last.result[i].id = last.result[j].id => i = j
        /\ Len(last.result) =
              Len(Page(IdsInOrder(MatchingIds), Pagings[last.p].skip, Pagings[last.p].limit))

\* C26: however a delete call interleaves with other calls on the store,
\* every record the call removes is in the list the call returns.
C26_RemovedAreReturned ==
    seen.op = "delete" => seen.removed \subseteq seen.returned

\* C27: however update calls on a many-to-many relation interleave, the link
\* rows a call writes have ids distinct from one another and from the ids of
\* the link rows in the table when it commits, and none of them is skipped
\* as a conflict.
C27_LinkIdsDistinct ==
    seen.op = "links" =>
        /\ \A x, y \in seen.written : x.id = y.id => x = y
        /\ \A x \in seen.written, y \in seen.present : x.id # y.id
        /\ seen.dropped = {}

RaisedStores == {raised[i].store : i \in 1..Len(raised)}

\* C29: when register() raises while get_*_store is creating the store of a
\* URI, that store is never put in the registry and never handed to a
\* caller, and a later call for the URI that finds no entry constructs a new
\* store and registers it.
C29_RegisterRaises ==
    /\ \A uri \in Uris : _STORES[uri] \notin RaisedStores
    /\ \A i \in 1..Len(registered) : registered[i].store \notin RaisedStores
    /\ \A r \in Requests :
          requests[r].pc \in {"registering", "returned"} =>
              requests[r].store \notin RaisedStores
    /\ \A r \in Requests :
          requests[r].pc = "raised" => requests[r].store \in RaisedStores

\* register() raised for a URI, and a later call for the same URI has
\* constructed and registered another store, which the registry now holds
C29_Witness ==
    /\ raised # <<>>
    /\ \E r \in Requests :
          /\ requests[r].pc = "returned"
          /\ requests[r].uri = raised[1].uri
          /\ requests[r].store > raised[1].store
          /\ _STORES[raised[1].uri] = requests[r].store
          /\ \E i \in 1..Len(registered) : registered[i].store = requests[r].store

\* C30: every command of an operation invoked on a RedisStore goes through
\* the connection of that store, however the operation interleaves with
\* operations on another RedisStore that uses the same model classes.
C30_OwnConnectionOnly ==
    (store = "redis" /\ seen.op \in OneCommand \cup TwoCommands) => seen.via = {seen.store}
====
